---- MODULE Spec2Model ----
(***************************************************************************)
(* Model of backend/server.py of the IT service desk voice agent:          *)
(*   - the ticket store and the operations on it (create_ticket with its   *)
(*     scan / insert / retry loop, update_ticket_status, the REST PATCH    *)
(*     and DELETE), run by several concurrent callers;                     *)
(*   - one websocket session of voice_agent_ws: the session handler, the   *)
(*     browser_to_xai loop, the xai_to_browser loop and its function-call  *)
(*     dispatcher.                                                         *)
(* Every await of the code is a step of its own; code between two awaits   *)
(* runs atomically (asyncio, single-threaded cooperative scheduling).      *)
(***************************************************************************)
EXTENDS Integers, Sequences, FiniteSets, TLC

VARIABLES
    tickets,      \* tickets_col: the documents, in insertion order
    calls,        \* per caller: the position of its handle_create_ticket call
    deleted,      \* history: ticket ids removed by delete_ticket
    scanFault,    \* history: a scan of handle_create_ticket raised
    nDel,         \* number of delete_ticket requests so far
    nUpd,         \* number of update requests so far
    nGet,         \* number of lookups so far
    last,         \* the last lookup, update or listing request and its reply
    clock,        \* what datetime.now(timezone.utc) returns
    updates,      \* per writer: its update request whose update_one is in flight
    others,       \* history: per create_ticket call, the tickets other calls
                  \* have inserted since its scan
    mpc,          \* voice_agent_ws: position of the session handler
    upConn,       \* xai_ws: "none", "open" or "closed"
    clConn,       \* websocket (the browser): "open" or "closed"
    browser_to_xai,   \* task1: position of the browser_to_xai loop
    xai_to_browser,   \* task2: position of the xai_to_browser loop
    msg,          \* browser_to_xai: the client frame in hand (none while the
                  \* loop waits for the next one)
    event,        \* xai_to_browser: the upstream frame in hand, with
                  \* func_args and result once they are computed
    upLog,        \* the sends on xai_ws, in order
    clLog,        \* the sends on websocket, in order
    nFrames,      \* number of frames read from the two peers so far
    config_col,   \* config_col: the agent_config document, "none" without one
    cfg,          \* voice_agent_ws: the configuration it has read
    priority_incidents,  \* priority_incidents_col: incident_id -> document
    joins,        \* per caller: its handle_add_me_to_priority_incident call
    toggle,       \* the toggle_affected request in progress
    nTog,         \* number of toggle_affected requests so far
    affected0,    \* history: the affected counters at the start
    togNet,       \* history: per incident, the sum of the toggles' $inc
    kb_col,       \* kb_col: the articles, in insertion order
    kbCalls,      \* per writer: its create_kb_article or upload_kb_document request
    nKbDel,       \* number of delete_kb_article requests so far
    startup       \* startup_event: its position, and history of the run

ticketVars == <<tickets, calls, deleted, scanFault, nDel, nUpd, nGet, last, clock, updates, others>>

timeVars == <<clock, updates>>

configVars == <<config_col, cfg>>

relayVars == <<mpc, upConn, clConn, browser_to_xai, xai_to_browser, msg, event, upLog, clLog, nFrames,
               config_col, cfg>>

incidentVars == <<priority_incidents, joins, toggle, nTog, affected0, togNet>>

kbVars == <<kb_col, kbCalls, nKbDel>>

startupVars == <<startup>>

vars == <<tickets, calls, deleted, scanFault, nDel, nUpd, nGet, last, clock, updates, others,
          mpc, upConn, clConn, browser_to_xai, xai_to_browser, msg, event, upLog, clLog, nFrames,
          priority_incidents, joins, toggle, nTog, affected0, togNet, config_col, cfg,
          kb_col, kbCalls, nKbDel, startup>>

----------------------------------------------------------------------------
(* Bounds of the model *)

NumCallers == 4      \* concurrent create_ticket calls on the empty store
MaxClock == 2        \* ticks of the clock after startup
MaxStore == 11       \* tickets in the store a listing is taken from
MaxClosed == 2       \* closed tickets among them
MaxArticles == 2     \* articles one uploaded document is split into
NumWriters == 2      \* concurrent create_ticket calls beside deletes and updates
MaxDel == 1          \* DELETE requests
MaxUpd == 1          \* update requests (voice handler or PATCH)
MaxGet == 1          \* lookups (voice handler or GET)
MaxFrames == 2       \* frames read from the browser and from upstream in a session
MaxCallFrames == 3   \* the same, in a session of function calls only
NumJoiners == 2      \* concurrent add_me_to_priority_incident calls
MaxToggles == 2      \* toggle_affected requests
MaxStart == 1        \* highest affected counter at the start
MaxBoots == 2        \* times the process is started
MaxFaults == 1       \* seed writes the store rejects in one startup

Callers == 1..NumCallers
Writers == 1..NumWriters
Joiners == 1..NumJoiners

----------------------------------------------------------------------------
(* Ticket identifiers: "TKT-007" is [pre |-> "TKT", num |-> <<0,0,7>>] *)

RECURSIVE Digits(_)
Digits(n) == IF n < 10 THEN <<n>> ELSE Digits(n \div 10) \o <<n % 10>>

\* the :03d of the f-string: zero-padded to at least three digits
Pad3(d) == IF Len(d) >= 3 THEN d ELSE [i \in 1..(3 - Len(d)) |-> 0] \o d

\* f"TKT-{n:03d}"
FormatTicketId(n) == [pre |-> "TKT", num |-> Pad3(Digits(n))]

RECURSIVE DigitsToInt(_)
DigitsToInt(d) ==
    IF Len(d) = 0 THEN 0
    ELSE 10 * DigitsToInt(SubSeq(d, 1, Len(d) - 1)) + d[Len(d)]

\* int(doc["ticket_id"].split("-")[1])
ParseSuffix(id) == DigitsToInt(id.num)

\* the $regex ^TKT-\d+$ of the scan
MatchesTktPattern(id) == id.pre = "TKT" /\ Len(id.num) >= 1

\* the letter-casings of the prefix a client may send
IdPrefixes == {"TKT", "tkt", "Tkt"}

\* str.upper() on the prefixes of the model
UpperStr(str) ==
    CASE str \in {"TKT", "tkt", "Tkt"} -> "TKT"
      [] str \in {"KB", "kb"} -> "KB"
      [] str \in {"INC", "inc", "Inc"} -> "INC"
      [] OTHER -> str

\* an identifier used as the client sent it
UpperIdentity(id) == id

\* str.upper() on a ticket id given by a client
Upper(id) == [id EXCEPT !.pre = UpperStr(@)]

----------------------------------------------------------------------------
(* The seed tickets inserted by startup_event into an empty collection *)

\* the timestamps are the clock's readings: 0 is the time the module was
\* loaded, when the seed's datetime.now() calls ran
TICKET_SEED ==
    << [ticket_id |-> FormatTicketId(1), title |-> "VPN Connection Timeout",
        description |-> "User cannot connect to company VPN",
        priority |-> "high", category |-> "network", status |-> "in_progress",
        user |-> "John Smith", created_at |-> 0, updated_at |-> 0,
        resolution |-> "None"],
       [ticket_id |-> FormatTicketId(2), title |-> "Outlook Not Syncing Emails",
        description |-> "Corporate email stopped syncing",
        priority |-> "medium", category |-> "email", status |-> "open",
        user |-> "Sarah Connor", created_at |-> 0, updated_at |-> 0,
        resolution |-> "None"],
       [ticket_id |-> FormatTicketId(3), title |-> "Printer Offline - Floor 3",
        description |-> "HP LaserJet on Floor 3 showing as offline",
        priority |-> "medium", category |-> "hardware", status |-> "resolved",
        user |-> "Mike Johnson", created_at |-> 0, updated_at |-> 0,
        resolution |-> "Restarted print spooler"] >>

----------------------------------------------------------------------------
(* The store *)

Indexes(coll, id) == {i \in DOMAIN coll : coll[i].ticket_id = id}

StoredIds == {tickets[i].ticket_id : i \in DOMAIN tickets}

StoredSuffixes == {ParseSuffix(tickets[i].ticket_id) : i \in DOMAIN tickets}

RECURSIVE MaxSuffix(_, _)
\* the scan loop of handle_create_ticket over the first k documents
MaxSuffix(coll, k) ==
    IF k = 0 THEN 0
    ELSE LET m == MaxSuffix(coll, k - 1)
             id == coll[k].ticket_id
             n == ParseSuffix(id)
         IN IF MatchesTktPattern(id) /\ n > m THEN n ELSE m

\* a collection without the unique index: no insert is rejected
DuplicateKeyNoIndex(id) == FALSE

\* the unique index ticket_id_unique created by startup_event: insert_one
\* raises a duplicate key error when a document with this ticket_id exists
DuplicateKey(id) == Indexes(tickets, id) # {}

RemoveAt(s, i) == SubSeq(s, 1, i - 1) \o SubSeq(s, i + 1, Len(s))

FirstIndex(coll, id) == CHOOSE i \in Indexes(coll, id) : \A j \in Indexes(coll, id) : i <= j

----------------------------------------------------------------------------
(* handle_create_ticket, one call per caller *)

IdleCall == [pc |-> "idle", last_num |-> 0, attempt |-> 0, now |-> 0, result |-> "none"]

\* a call that has returned: only its result is left
Returned(r) == [pc |-> "done", last_num |-> 0, attempt |-> 0, now |-> 0, result |-> r]

\* callers are interchangeable: they enter handle_create_ticket in index order
MayStart(c) ==
    /\ calls[c].pc = "idle"
    /\ \A d \in Callers : d < c => calls[d].pc # "idle"

\* a retry loop that tries the same identifier on every pass
CandidateNoAttempt(c) == FormatTicketId(calls[c].last_num + 1)

\* the identifier of the current pass of the retry loop
Candidate(c) == FormatTicketId(calls[c].last_num + 1 + calls[c].attempt)

\* the scan completes: last_num is the highest suffix in the collection
CreateScan(c) ==
    /\ MayStart(c)
    /\ calls' = [calls EXCEPT ![c] = [@ EXCEPT !.pc = "insert", !.now = clock,
                     !.last_num = MaxSuffix(tickets, Len(tickets))]]
    /\ UNCHANGED <<tickets, deleted, scanFault, nDel, nUpd, nGet, last>>

\* the scan raises: the exception is swallowed and last_num keeps the
\* highest suffix seen so far. The collection fits the cursor's first batch,
\* so a scan that raises has seen no document
CreateScanFail(c) ==
    /\ MayStart(c)
    /\ calls' = [calls EXCEPT ![c] = [@ EXCEPT !.pc = "insert", !.now = clock,
                     !.last_num = MaxSuffix(tickets, 0)]]
    /\ scanFault' = TRUE
    /\ UNCHANGED <<tickets, deleted, nDel, nUpd, nGet, last>>

\* the document of one pass of the retry loop; now is the clock's reading
\* when the pass began, before its insert_one was awaited
NewTicket(id, prio, now) ==
    [ticket_id |-> id, title |-> "title", description |-> "description",
     priority |-> prio, category |-> "general", status |-> "open",
     user |-> "Voice Agent User", created_at |-> now, updated_at |-> now,
     resolution |-> "None"]

\* one pass of the retry loop whose insert_one succeeds
CreateInsertOk(c) ==
    /\ calls[c].pc = "insert"
    /\ ~DuplicateKey(Candidate(c))
    /\ tickets' = Append(tickets, NewTicket(Candidate(c), "medium", calls[c].now))
    /\ calls' = [calls EXCEPT ![c] = Returned("success")]
    /\ UNCHANGED <<deleted, scanFault, nDel, nUpd, nGet, last>>

\* one pass of the retry loop whose insert_one raises a duplicate key error
CreateInsertDuplicate(c) ==
    /\ calls[c].pc = "insert"
    /\ DuplicateKey(Candidate(c))
    /\ calls' = [calls EXCEPT ![c] =
                    IF calls[c].attempt < 2
                    THEN [@ EXCEPT !.attempt = @ + 1, !.now = clock]
                    ELSE Returned("failed_duplicate")]
    /\ UNCHANGED <<tickets, deleted, scanFault, nDel, nUpd, nGet, last>>

\* one pass of the retry loop whose insert_one raises any other error
CreateInsertError(c) ==
    /\ calls[c].pc = "insert"
    /\ calls' = [calls EXCEPT ![c] = Returned("failed_error")]
    /\ UNCHANGED <<tickets, deleted, scanFault, nDel, nUpd, nGet, last>>

----------------------------------------------------------------------------
(* Single-document operations on tickets *)

\* identifiers as clients send them: a prefix in some letter-casing and the
\* digits of a number
RawIds(prefixes, nums) ==
    {[pre |-> p, num |-> FormatTicketId(n).num] : p \in prefixes, n \in nums}

\* every stored position and one more, as the server writes them
ClientIds == RawIds({"TKT"}, 1..(Len(tickets) + 1))

\* the last seed ticket and the first identifier beyond the seed, in every
\* letter-casing
DeskIds == RawIds(IdPrefixes, {Len(TICKET_SEED), Len(TICKET_SEED) + 1})

\* A lookup or update_ticket_status request as the client sent it, and what
\* it got back. reply: "ok",
\* "not_found" (success=false or found=false from a handler), "404" (REST);
\* shown: the identifier in the reply's message.
Request(op, raw, status, note, reply, shown) ==
    [op |-> op, ticket_id |-> raw, status |-> status, note |-> note,
     reply |-> reply, shown |-> shown]

NoId == [pre |-> "", num |-> << >>]

NoRequest == Request("none", NoId, "", "", "none", NoId)

\* DELETE /api/tickets/{ticket_id}
DeleteTicket(raw) ==
    /\ nDel < MaxDel
    /\ nDel' = nDel + 1
    /\ LET id == Upper(raw) IN
         IF Indexes(tickets, id) = {}
         THEN UNCHANGED <<tickets, deleted>>
         ELSE /\ tickets' = RemoveAt(tickets, FirstIndex(tickets, id))
              /\ deleted' = deleted \cup {id}
    /\ UNCHANGED <<calls, scanFault, nUpd, nGet, last>>

\* args.get("note", "")
NoteOf(note) == IF note = "<absent>" THEN "" ELSE note

\* the arguments update_ticket_status is called with
UpdateStatuses == {"closed"}

UpdateNotes == {"<absent>", "", "fixed"}

\* an update_one that replaces the priority as well
StatusUpdateResetsPriority(doc, status, note, now) ==
    [doc EXCEPT !.status = status, !.updated_at = now, !.priority = "medium",
                !.resolution = IF NoteOf(note) # "" THEN NoteOf(note) ELSE @]

\* the $set of handle_update_ticket_status applied to a document; now is the
\* handler's datetime.now(), read before update_one is awaited
StatusUpdate(doc, status, note, now) ==
    [doc EXCEPT !.status = status, !.updated_at = now,
                !.resolution = IF NoteOf(note) # "" THEN NoteOf(note) ELSE @]

\* the $set of update_ticket_api applied to a document
PatchUpdate(doc, status, res, prio, now) ==
    [doc EXCEPT !.updated_at = now,
                !.status = IF status # "" THEN status ELSE @,
                !.resolution = IF res # "" THEN res ELSE @,
                !.priority = IF prio # "" THEN prio ELSE @]

\* update_one({"ticket_id": id}, ...) matches the first document with the
\* identifier, if any: 0 when matched_count is 0
Matched(id) == IF Indexes(tickets, id) = {} THEN 0 ELSE FirstIndex(tickets, id)

\* handle_update_ticket_status whose update_one is applied before the clock
\* moves and before any other request
UpdateTicketStatus(raw, status, note) ==
    /\ nUpd < MaxUpd
    /\ nUpd' = nUpd + 1
    /\ LET i == Matched(Upper(raw))
       IN tickets' = IF i = 0 THEN tickets
                      ELSE [tickets EXCEPT ![i] = StatusUpdate(@, status, note, clock)]
    /\ UNCHANGED <<calls, deleted, scanFault, nDel, nGet>>

\* what handle_update_ticket_status returns: matched_count == 0 is not found
UpdateTicketStatusReply(raw, status, note) ==
    Request("update_ticket_status", raw, status, note,
            IF Indexes(tickets, Upper(raw)) = {} THEN "not_found" ELSE "ok",
            Upper(raw))

\* PATCH /api/tickets/{ticket_id}: update_ticket_api, applied before the clock
\* moves and before any other request
UpdateTicketApi(raw) ==
    /\ nUpd < MaxUpd
    /\ nUpd' = nUpd + 1
    /\ \E status \in {"", "in_progress"}, res \in {""}, prio \in {"", "critical"} :
          LET i == Matched(Upper(raw))
          IN tickets' = IF i = 0 THEN tickets
                         ELSE [tickets EXCEPT ![i] = PatchUpdate(@, status, res, prio, clock)]
    /\ UNCHANGED <<calls, deleted, scanFault, nDel, nGet, last>>

\* an update request between its datetime.now() and the reply of update_one
IdleUpdate == [pc |-> "idle", now |-> 0]

\* writers are interchangeable: they send their requests in index order
MayUpdate(w) ==
    /\ updates[w].pc = "idle"
    /\ \A v \in Writers : v < w => updates[v].pc # "idle"

\* handle_update_ticket_status up to its await: update_doc is built with the
\* clock's reading
UpdateTicketStatusCall(w) ==
    /\ MayUpdate(w)
    /\ updates' = [updates EXCEPT ![w] = [pc |-> "update_ticket_status", now |-> clock]]
    /\ UNCHANGED <<tickets, calls, deleted, scanFault, nDel, nUpd, nGet, last, clock>>

\* its update_one is applied by the store
UpdateTicketStatusStore(w, raw, status, note) ==
    /\ updates[w].pc = "update_ticket_status"
    /\ LET i == Matched(Upper(raw))
       IN tickets' = IF i = 0 THEN tickets
                      ELSE [tickets EXCEPT ![i] = StatusUpdate(@, status, note, updates[w].now)]
    /\ updates' = [updates EXCEPT ![w] = [pc |-> "done", now |-> 0]]
    /\ UNCHANGED <<calls, deleted, scanFault, nDel, nUpd, nGet, last, clock>>

\* update_ticket_api up to its await
UpdateTicketApiCall(w) ==
    /\ MayUpdate(w)
    /\ updates' = [updates EXCEPT ![w] = [pc |-> "update_ticket_api", now |-> clock]]
    /\ UNCHANGED <<tickets, calls, deleted, scanFault, nDel, nUpd, nGet, last, clock>>

\* its update_one is applied by the store
UpdateTicketApiStore(w, raw, status, res, prio) ==
    /\ updates[w].pc = "update_ticket_api"
    /\ LET i == Matched(Upper(raw))
       IN tickets' = IF i = 0 THEN tickets
                      ELSE [tickets EXCEPT ![i] = PatchUpdate(@, status, res, prio, updates[w].now)]
    /\ updates' = [updates EXCEPT ![w] = [pc |-> "done", now |-> 0]]
    /\ UNCHANGED <<calls, deleted, scanFault, nDel, nUpd, nGet, last, clock>>

\* time passes
Tick ==
    /\ clock < MaxClock
    /\ clock' = clock + 1
    /\ UNCHANGED <<tickets, calls, deleted, scanFault, nDel, nUpd, nGet, last, updates>>

\* handle_get_ticket: find_one; found=false with the identifier in the message
GetTicket(raw) ==
    /\ nGet < MaxGet
    /\ nGet' = nGet + 1
    /\ LET id == Upper(raw) IN
         last' = IF Indexes(tickets, id) = {}
                 THEN Request("get_ticket", raw, "", "", "not_found", id)
                 ELSE Request("get_ticket", raw, "", "", "ok",
                              tickets[FirstIndex(tickets, id)].ticket_id)
    /\ UNCHANGED <<tickets, calls, deleted, scanFault, nDel, nUpd>>

\* a lookup that returns whatever find_one gave, None included
GetTicketApiUnchecked(raw) ==
    /\ nGet < MaxGet
    /\ nGet' = nGet + 1
    /\ last' = Request("get_ticket_api", raw, "", "", "ok", NoId)
    /\ UNCHANGED <<tickets, calls, deleted, scanFault, nDel, nUpd>>

\* GET /api/tickets/{ticket_id}: get_ticket_api
GetTicketApi(raw) ==
    /\ nGet < MaxGet
    /\ nGet' = nGet + 1
    /\ LET id == Upper(raw) IN
         last' = IF Indexes(tickets, id) = {}
                 THEN Request("get_ticket_api", raw, "", "", "404", NoId)
                 ELSE Request("get_ticket_api", raw, "", "", "ok",
                              tickets[FirstIndex(tickets, id)].ticket_id)
    /\ UNCHANGED <<tickets, calls, deleted, scanFault, nDel, nUpd>>

----------------------------------------------------------------------------
(* Listings of tickets *)

\* the status a listing is asked for: "<absent>" is a request without one
ListStatuses == {"<absent>", "all", "open", "closed"}

\* handle_list_tickets: args.get("status", "all"), {} for "all"
HandlerQuery(status) == IF status \in {"<absent>", "all"} THEN "all" ELSE status

\* list_tickets: {} if not status or status == "all"
ApiQuery(status) == IF status \in {"<absent>", "", "all"} THEN "all" ELSE status

\* find(query): the positions of the matching documents
Find(query) == {i \in DOMAIN tickets : query = "all" \/ tickets[i].status = query}

\* a cursor without limit
NoLimit(n) == n

\* .limit(10)
Limit(n) == IF n > 10 THEN 10 ELSE n

\* S holds the n documents a cursor sorted by created_at descending gives
\* first: none left out was created after one of S. The order among
\* documents with equal created_at is the store's choice: S is the documents
\* created after some time and any of those created at that time
FirstSorted(S, from, n) ==
    /\ S \subseteq from
    /\ Cardinality(S) = n
    /\ \A i \in S, j \in from \ S : tickets[j].created_at <= tickets[i].created_at

\* the documents of S a cursor sorted by created_at descending gives before
\* the document at position i
Before(S, i) ==
    {j \in S : \/ tickets[j].created_at > tickets[i].created_at
               \/ tickets[j].created_at = tickets[i].created_at /\ j < i}

\* sort("created_at", -1) of the documents at the positions S
SortDescending(S) ==
    [k \in 1..Cardinality(S) |-> CHOOSE i \in S : Cardinality(Before(S, i)) = k - 1]

\* the fields of a ticket handle_list_tickets returns
Summary(doc) ==
    [ticket_id |-> doc.ticket_id, title |-> doc.title, status |-> doc.status,
     priority |-> doc.priority, category |-> doc.category]

Listing(op, status, count, docs) ==
    [op |-> op, status |-> status, count |-> count, tickets |-> docs]

\* handle_list_tickets
HandleListTickets(status) ==
    /\ LET from == Find(HandlerQuery(status)) IN
         \E at \in {tickets[i].created_at : i \in from} \cup {0} :
            \E tied \in SUBSET {i \in from : tickets[i].created_at = at} :
               LET S == {i \in from : tickets[i].created_at > at} \cup tied
                   order == SortDescending(S)
                   docs == [k \in DOMAIN order |-> Summary(tickets[order[k]])]
               IN /\ FirstSorted(S, from, Limit(Cardinality(from)))
                  /\ last' = Listing("list_tickets", status, Len(docs), docs)
    /\ UNCHANGED <<tickets, calls, deleted, scanFault, nDel, nUpd, nGet>>

\* GET /api/tickets: list_tickets
ListTickets(status) ==
    /\ LET order == SortDescending(Find(ApiQuery(status)))
           docs == [k \in DOMAIN order |-> tickets[order[k]]]
       IN last' = Listing("list_tickets_api", status, "absent", docs)
    /\ UNCHANGED <<tickets, calls, deleted, scanFault, nDel, nUpd, nGet>>

----------------------------------------------------------------------------
(* Knowledge-base articles *)

\* f"KB-{article_num:03d}"
FormatArticleId(n) == [pre |-> "KB", num |-> Pad3(Digits(n))]

Article(n, source) == [article_id |-> FormatArticleId(n), source |-> source]

\* KB_SEED: KB-001 .. KB-008, inserted by startup_event into an empty collection
KB_SEED == [n \in 1..8 |-> Article(n, "preloaded")]

IdleKbCall == [pc |-> "idle", article_num |-> 0, left |-> 0]

\* writers are interchangeable: they send their requests in index order
MayWrite(w) ==
    /\ kbCalls[w].pc = "idle"
    /\ \A v \in Writers : v < w => kbCalls[v].pc # "idle"

\* create_kb_article: count_documents({}) + 1
CreateKbArticleCount(w) ==
    /\ MayWrite(w)
    /\ kbCalls' = [kbCalls EXCEPT ![w] =
                      [pc |-> "create_insert", article_num |-> Len(kb_col) + 1, left |-> 1]]
    /\ UNCHANGED <<kb_col, nKbDel>>

\* create_kb_article: insert_one; kb_col has no unique index on article_id
CreateKbArticleInsert(w) ==
    /\ kbCalls[w].pc = "create_insert"
    /\ kb_col' = Append(kb_col, Article(kbCalls[w].article_num, "manual"))
    /\ kbCalls' = [kbCalls EXCEPT ![w] = [pc |-> "done", article_num |-> 0, left |-> 0]]
    /\ UNCHANGED nKbDel

\* upload_kb_document with a document of n articles: the count_documents of
\* its first article
UploadKbDocumentStart(w, n) ==
    /\ MayWrite(w)
    /\ kbCalls' = [kbCalls EXCEPT ![w] =
                      [pc |-> "upload_insert", article_num |-> Len(kb_col) + 1, left |-> n]]
    /\ UNCHANGED <<kb_col, nKbDel>>

\* upload_kb_document: the count_documents of a later article
UploadKbDocumentCount(w) ==
    /\ kbCalls[w].pc = "upload_count"
    /\ kbCalls' = [kbCalls EXCEPT ![w] =
                      [@ EXCEPT !.pc = "upload_insert", !.article_num = Len(kb_col) + 1]]
    /\ UNCHANGED <<kb_col, nKbDel>>

\* upload_kb_document: insert_one of the article in hand
UploadKbDocumentInsert(w) ==
    /\ kbCalls[w].pc = "upload_insert"
    /\ kb_col' = Append(kb_col, Article(kbCalls[w].article_num, "upload"))
    /\ kbCalls' = [kbCalls EXCEPT ![w] =
                      IF kbCalls[w].left > 1
                      THEN [pc |-> "upload_count", article_num |-> 0, left |-> kbCalls[w].left - 1]
                      ELSE [pc |-> "done", article_num |-> 0, left |-> 0]]
    /\ UNCHANGED nKbDel

\* DELETE /api/kb/{article_id}: delete_one removes the first match
DeleteKbArticle(raw) ==
    /\ nKbDel < MaxDel
    /\ nKbDel' = nKbDel + 1
    /\ LET found == {i \in DOMAIN kb_col : kb_col[i].article_id = Upper(raw)}
       IN kb_col' = IF found = {} THEN kb_col
                    ELSE RemoveAt(kb_col, CHOOSE i \in found : \A j \in found : i <= j)
    /\ UNCHANGED kbCalls

----------------------------------------------------------------------------
(* Priority incidents *)

IncidentId(p, n) == [pre |-> p, num |-> n]

\* PRIORITY_INCIDENT_SEED, its last two incidents: both active
PRIORITY_INCIDENT_SEED ==
    (IncidentId("INC", "0085") :> [active |-> TRUE, affected |-> 63]) @@
    (IncidentId("INC", "0082") :> [active |-> TRUE, affected |-> 34])

\* The collection at the start of the runs examined: startup_event upserts the
\* seed with $setOnInsert and so keeps every document already stored as it
\* is, a retired incident flagged inactive included; the counters are those
\* the toggles have left.
StoredIncidents(a) ==
    (IncidentId("INC", "0082") :> [active |-> TRUE, affected |-> a]) @@
    (IncidentId("INC", "0070") :> [active |-> FALSE, affected |-> 12])

\* identifiers as clients send them: an active incident in two
\* letter-casings, the inactive one, and one that is not stored
IncidentRequests ==
    {IncidentId("INC", "0082"), IncidentId("inc", "0082"),
     IncidentId("Inc", "0070"), IncidentId("INC", "9999")}

NoIncident == IncidentId("", "")

\* doc_affected: doc.get("affected", 0) of the document find_one returned
IdleJoin == [pc |-> "idle", incident_id |-> NoIncident,
             doc_affected |-> 0, result |-> "none", new_count |-> 0, stored |-> 0]

\* find_one({"incident_id": incident_id, "active": True})
FindActive(id) ==
    id \in DOMAIN priority_incidents /\ priority_incidents[id].active

\* a lookup that leaves the active flag out of its filter
FindAny(id) == id \in DOMAIN priority_incidents

\* callers are interchangeable: they call in index order
MayJoin(c) ==
    /\ joins[c].pc = "idle"
    /\ \A d \in Joiners : d < c => joins[d].pc # "idle"

\* handle_add_me_to_priority_incident with a lookup that ignores the flag
AddMeFindAnyIncident(c, raw) ==
    /\ MayJoin(c)
    /\ LET id == Upper(raw) IN
         joins' = [joins EXCEPT ![c] =
            IF FindAny(id)
            THEN [@ EXCEPT !.pc = "inc", !.incident_id = id,
                           !.doc_affected = priority_incidents[id].affected]
            ELSE [@ EXCEPT !.pc = "done", !.incident_id = id,
                           !.result = "failure"]]
    /\ UNCHANGED <<priority_incidents, toggle, nTog, affected0, togNet>>

\* handle_add_me_to_priority_incident up to its find_one: success=false when
\* there is no active incident of that identifier
AddMeFind(c, raw) ==
    /\ MayJoin(c)
    /\ LET id == Upper(raw) IN
         joins' = [joins EXCEPT ![c] =
            IF FindActive(id)
            THEN [@ EXCEPT !.pc = "inc", !.incident_id = id,
                           !.doc_affected = priority_incidents[id].affected]
            ELSE [@ EXCEPT !.pc = "done", !.incident_id = id,
                           !.result = "failure"]]
    /\ UNCHANGED <<priority_incidents, toggle, nTog, affected0, togNet>>

\* an increment written as the count read earlier plus one
AddMeIncrementFromSnapshot(c) ==
    /\ joins[c].pc = "inc"
    /\ priority_incidents' = [priority_incidents EXCEPT
           ![joins[c].incident_id].affected = joins[c].doc_affected + 1]
    /\ joins' = [joins EXCEPT ![c] =
           [@ EXCEPT !.pc = "done", !.result = "success", !.doc_affected = 0,
                     !.new_count = joins[c].doc_affected + 1,
                     !.stored = priority_incidents'[joins[c].incident_id].affected]]
    /\ UNCHANGED <<toggle, nTog, affected0, togNet>>

\* update_one with $inc, then the result built from the document read before
\* (stored: history, the counter as this increment left it)
AddMeIncrement(c) ==
    /\ joins[c].pc = "inc"
    /\ priority_incidents' = [priority_incidents EXCEPT
           ![joins[c].incident_id].affected = @ + 1]
    /\ joins' = [joins EXCEPT ![c] =
           [@ EXCEPT !.pc = "done", !.result = "success", !.doc_affected = 0,
                     !.new_count = joins[c].doc_affected + 1,
                     !.stored = priority_incidents'[joins[c].incident_id].affected]]
    /\ UNCHANGED <<toggle, nTog, affected0, togNet>>

\* update_one raises: the exception leaves the handler
AddMeIncrementFail(c) ==
    /\ joins[c].pc = "inc"
    /\ joins' = [joins EXCEPT ![c] =
           [@ EXCEPT !.pc = "done", !.result = "raised", !.doc_affected = 0]]
    /\ UNCHANGED <<priority_incidents, toggle, nTog, affected0, togNet>>

NoToggle == [pc |-> "idle", incident_id |-> NoIncident]

\* body.get("action", "add"); 1 if action == "add" else -1
IncVal(action) == IF action \in {"add", "<absent>"} THEN 1 ELSE -1

\* toggle_affected up to its update_one: $inc on the active incident, 404
\* when none matched
ToggleAffected(raw, action) ==
    /\ toggle.pc = "idle"
    /\ nTog < MaxToggles
    /\ nTog' = nTog + 1
    /\ LET id == Upper(raw) IN
         IF FindActive(id)
         THEN /\ priority_incidents' = [priority_incidents EXCEPT
                     ![id].affected = @ + IncVal(action)]
              /\ togNet' = [togNet EXCEPT ![id] = @ + IncVal(action)]
              /\ toggle' = [pc |-> "find", incident_id |-> id]
         ELSE UNCHANGED <<priority_incidents, togNet, toggle>>
    /\ UNCHANGED <<joins, affected0>>

\* toggle_affected: the find_one whose count it returns to the client
ToggleFind ==
    /\ toggle.pc = "find"
    /\ toggle' = NoToggle
    /\ UNCHANGED <<priority_incidents, joins, nTog, affected0, togNet>>

----------------------------------------------------------------------------
(* One websocket session: voice_agent_ws *)

\* an allow-list that lets session.update through
allowedWithSessionUpdate ==
    {"input_audio_buffer.append", "input_audio_buffer.clear",
     "conversation.item.create", "response.create", "session.update"}

\* the allow-list of browser_to_xai
allowed == {"input_audio_buffer.append", "input_audio_buffer.clear",
            "conversation.item.create", "response.create"}

\* the keys of FUNCTION_HANDLERS
FUNCTION_HANDLERS ==
    {"create_ticket", "search_knowledge_base", "get_ticket", "list_tickets",
     "update_ticket_status", "list_priority_incidents",
     "add_me_to_priority_incident"}

FunctionCallDone == "response.function_call_arguments.done"

\* A JSON value that is a list or an object cannot be hashed: looking it up in
\* a set or as a dict key raises TypeError. "<list>" stands for such a value.
Hashable(v) == v # "<list>"

\* Client frames. json: "invalid" (json.loads raises), "other" (valid JSON
\* that is no object: msg.get raises), "object"; type "<none>": no type key.
CFrame(j, t) == [json |-> j, type |-> t]

ClientFrames ==
    {CFrame("object", "response.create"),
     CFrame("object", "session.update"),
     CFrame("object", "<none>"),
     CFrame("object", "<list>"),
     CFrame("invalid", "<none>")}

NoMsg == CFrame("none", "<none>")

\* Upstream frames. arguments: "object" (a JSON object with the keys the tool
\* requires), "other" (valid JSON, no object), "invalid" (no JSON), "absent".
\* Results: success is "true", "false" or "absent" (no success key); error is
\* the name in "Unknown function: <name>", or "exception" for str(e).
Result(k, s, e) == [kind |-> k, success |-> s, error |-> e]

NoResult == Result("none", "absent", "")

UFrame(j, t, n, c, a) ==
    [json |-> j, type |-> t, name |-> n, call_id |-> c, arguments |-> a,
     func_args |-> "none", handler |-> "none", raised |-> FALSE,
     result |-> NoResult, seq |-> 0]

UpstreamFrames ==
    {UFrame("object", "response.output_audio.delta", "", "", "absent"),
     UFrame("invalid", "", "", "", "absent"),
     UFrame("object", FunctionCallDone, "create_ticket", "call_a", "object"),
     UFrame("object", FunctionCallDone, "create_ticket", "call_b", "invalid"),
     UFrame("object", FunctionCallDone, "get_ticket", "call_a", "other"),
     UFrame("object", FunctionCallDone, "no_such_tool", "call_b", "object"),
     UFrame("object", FunctionCallDone, "<list>", "call_a", "absent")}

NoEvent == UFrame("none", "", "", "", "absent")

\* a dispatcher that keeps an arguments string it cannot parse
ParseArgumentsNoDefault(a) ==
    CASE a = "object" -> "object"
      [] a = "other" -> "other"
      [] a = "absent" -> "empty"
      [] a = "invalid" -> "invalid"

\* json.loads(event.get("arguments", "{}")), {} when it raises
ParseArguments(a) ==
    CASE a = "object" -> "object"
      [] a = "other" -> "other"
      [] a = "absent" -> "empty"
      [] a = "invalid" -> "empty"

\* What a handler does with func_args, the store up or down: "ok" (its normal
\* result), "failure" (it returns success=false itself), "raise".
\* create_ticket swallows a failing scan and catches a failing insert, but
\* reads args["title"] unguarded; get_ticket reads args["ticket_id"] and
\* awaits find_one unguarded.
HandlerOutcome(name, func_args, storeUp) ==
    CASE func_args # "object" -> "raise"
      [] func_args = "object" /\ storeUp -> "ok"
      [] func_args = "object" /\ ~storeUp /\ name = "create_ticket" -> "failure"
      [] OTHER -> "raise"

\* the dispatcher's result for a handler outcome (lines 559-565)
DispatchResult(outcome) ==
    CASE outcome = "ok" -> Result("handler", "true", "")
      [] outcome = "failure" -> Result("handler", "false", "")
      [] outcome = "raise" -> Result("function_failed", "false", "exception")

\* Handlers that await the store twice: create_ticket scans, then inserts;
\* add_me_to_priority_incident looks the incident up, then increments it.
TwoStoreOps(name) == name \in {"create_ticket", "add_me_to_priority_incident"}

\* The handler is at its last await: the handlers above reach their second
\* store operation only with the keys they read in between present
\* (event.handler: "none" outside the handler, "op1" while it awaits its
\* first store operation, "op2" while it awaits its second)
HandlerAtLastOp(e) ==
    \/ e.handler = "op2"
    \/ e.handler = "op1" /\ ~(TwoStoreOps(e.name) /\ e.func_args = "object")

\* {"error": f"Unknown function: {func_name}"}
UnknownFunction(name) == Result("unknown_function", "absent", name)

\* One send on a socket, as logged: ok is FALSE when the send raised.
Sent(by, type, e, ok) ==
    [by |-> by, type |-> type, fn |-> e.name, call_id |-> e.call_id,
     args |-> e.func_args, result |-> e.result, seq |-> e.seq, ok |-> ok]

Running(t) == t \notin {"none", "done", "cancelled"}

Cancel(t) == IF Running(t) THEN "cancelled" ELSE t

---------------------------------------------------------------------------
(* The session handler *)

\* websockets.connect fails: the except branch is next
MainConnectFail ==
    /\ mpc = "connect"
    /\ mpc' = "except"
    /\ UNCHANGED <<upConn, clConn, browser_to_xai, xai_to_browser, msg, event, upLog, clLog, nFrames>>

MainConnect ==
    /\ mpc = "connect"
    /\ upConn' = "open"
    /\ mpc' = "config"
    /\ UNCHANGED <<clConn, browser_to_xai, xai_to_browser, msg, event, upLog, clLog, nFrames>>

\* get_agent_config: the stored document, the defaults without one
GetAgentConfig(doc) == IF doc = "none" THEN "default" ELSE doc

\* the session_config message: "tools": TOOLS, voice and instructions of cfg
SessionConfig(c) == [NoEvent EXCEPT !.name = "TOOLS", !.func_args = c]

\* a session that is configured with the defaults whatever is stored
MainConfigDefaults ==
    /\ mpc = "config"
    /\ cfg' = "default"
    /\ mpc' = "session_update"
    /\ UNCHANGED <<upConn, clConn, browser_to_xai, xai_to_browser, msg, event, upLog, clLog, nFrames>>

\* get_agent_config returns
MainConfig ==
    /\ mpc = "config"
    /\ cfg' = GetAgentConfig(config_col)
    /\ mpc' = "session_update"
    /\ UNCHANGED <<upConn, clConn, browser_to_xai, xai_to_browser, msg, event, upLog, clLog, nFrames>>

\* get_agent_config raises: the async with closes xai_ws on the way out
MainConfigFail ==
    /\ mpc = "config"
    /\ upConn' = "closed"
    /\ mpc' = "except"
    /\ UNCHANGED <<clConn, browser_to_xai, xai_to_browser, msg, event, upLog, clLog, nFrames>>

\* xai_ws.send(session.update), then both tasks are created and awaited
MainSessionUpdate ==
    /\ mpc = "session_update"
    /\ upLog' = Append(upLog, Sent("main", "session.update", SessionConfig(cfg), upConn = "open"))
    /\ IF upConn = "open"
       THEN /\ mpc' = "wait"
            /\ browser_to_xai' = "recv"
            /\ xai_to_browser' = "recv"
            /\ UNCHANGED upConn
       ELSE /\ mpc' = "except"
            /\ upConn' = "closed"
            /\ UNCHANGED <<browser_to_xai, xai_to_browser>>
    /\ UNCHANGED <<clConn, msg, event, clLog, nFrames>>

\* asyncio.wait returns on the first completed task; the pending one is cancelled
MainWaitReturnNoCancel ==
    /\ mpc = "wait"
    /\ browser_to_xai = "done" \/ xai_to_browser = "done"
    /\ mpc' = "close_upstream"
    /\ UNCHANGED <<upConn, clConn, browser_to_xai, xai_to_browser, msg, event, upLog, clLog, nFrames>>

MainWaitReturn ==
    /\ mpc = "wait"
    /\ browser_to_xai = "done" \/ xai_to_browser = "done"
    /\ browser_to_xai' = Cancel(browser_to_xai)
    /\ xai_to_browser' = Cancel(xai_to_browser)
    /\ mpc' = "close_upstream"
    /\ UNCHANGED <<upConn, clConn, msg, event, upLog, clLog, nFrames>>

\* leaving the async with: xai_ws is closed
MainCloseUpstream ==
    /\ mpc = "close_upstream"
    /\ upConn' = "closed"
    /\ mpc' = "finally"
    /\ UNCHANGED <<clConn, browser_to_xai, xai_to_browser, msg, event, upLog, clLog, nFrames>>

\* a handler whose except branch returns without closing the client socket
MainExceptReturns ==
    /\ mpc = "except"
    /\ clLog' = Append(clLog, Sent("main", "error", NoEvent, clConn = "open"))
    /\ mpc' = "returned"
    /\ UNCHANGED <<upConn, clConn, browser_to_xai, xai_to_browser, msg, event, upLog, nFrames>>

\* except Exception: the error frame, best effort
MainExcept ==
    /\ mpc = "except"
    /\ clLog' = Append(clLog, Sent("main", "error", NoEvent, clConn = "open"))
    /\ mpc' = "finally"
    /\ UNCHANGED <<upConn, clConn, browser_to_xai, xai_to_browser, msg, event, upLog, nFrames>>

\* finally: websocket.close(), errors swallowed
MainFinally ==
    /\ mpc = "finally"
    /\ clLog' = Append(clLog, Sent("main", "close", NoEvent, clConn = "open"))
    /\ clConn' = "closed"
    /\ mpc' = "returned"
    /\ UNCHANGED <<upConn, browser_to_xai, xai_to_browser, msg, event, upLog, nFrames>>

---------------------------------------------------------------------------
(* The peers *)

ClientDisconnect ==
    /\ mpc # "returned"
    /\ clConn = "open"
    /\ clConn' = "closed"
    /\ UNCHANGED <<mpc, upConn, browser_to_xai, xai_to_browser, msg, event, upLog, clLog, nFrames>>

UpstreamDisconnect ==
    /\ mpc # "returned"
    /\ upConn = "open"
    /\ upConn' = "closed"
    /\ UNCHANGED <<mpc, clConn, browser_to_xai, xai_to_browser, msg, event, upLog, clLog, nFrames>>

---------------------------------------------------------------------------
(* browser_to_xai *)

\* what the loop does with a frame it has read, up to the next await
AfterClientFrame(f) ==
    CASE f.json # "object" -> "done"
      [] f.json = "object" /\ ~Hashable(f.type) -> "done"
      [] f.json = "object" /\ Hashable(f.type) /\ f.type \in allowed -> "send"
      [] OTHER -> "recv"

\* websocket.receive_text() returns a frame
B2XReceive(f) ==
    /\ browser_to_xai = "recv"
    /\ clConn = "open"
    /\ nFrames' = nFrames + 1
    /\ msg' = IF AfterClientFrame(f) = "recv" THEN NoMsg ELSE f
    /\ browser_to_xai' = AfterClientFrame(f)
    /\ UNCHANGED <<mpc, upConn, clConn, xai_to_browser, event, upLog, clLog>>

\* websocket.receive_text() raises WebSocketDisconnect
B2XReceiveFail ==
    /\ browser_to_xai = "recv"
    /\ clConn = "closed"
    /\ browser_to_xai' = "done"
    /\ UNCHANGED <<mpc, upConn, clConn, xai_to_browser, msg, event, upLog, clLog, nFrames>>

\* xai_ws.send(json.dumps(msg))
B2XSend ==
    /\ browser_to_xai = "send"
    /\ upLog' = Append(upLog, Sent("browser_to_xai", msg.type, NoEvent, upConn = "open"))
    /\ browser_to_xai' = IF upConn = "open" THEN "recv" ELSE "done"
    /\ msg' = IF upConn = "open" THEN NoMsg ELSE msg
    /\ UNCHANGED <<mpc, upConn, clConn, xai_to_browser, event, clLog, nFrames>>

---------------------------------------------------------------------------
(* xai_to_browser and the dispatcher *)

\* a loop that forwards every event it can parse, function calls included
AfterUpstreamFrameForwardAll(f) ==
    CASE f.json # "object" -> "done"
      [] OTHER -> "forward"

\* what the loop does with a frame it has read, up to the next await
AfterUpstreamFrame(f) ==
    CASE f.json # "object" -> "done"
      [] f.json = "object" /\ f.type = FunctionCallDone -> "started"
      [] OTHER -> "forward"

\* the iteration over xai_ws yields a frame
X2BReceive(f) ==
    /\ xai_to_browser = "recv"
    /\ upConn = "open"
    /\ nFrames' = nFrames + 1
    /\ event' = [f EXCEPT !.seq = nFrames + 1,
                          !.func_args = IF f.json = "object" /\ f.type = FunctionCallDone
                                        THEN ParseArguments(f.arguments)
                                        ELSE "none"]
    /\ xai_to_browser' = AfterUpstreamFrame(f)
    /\ UNCHANGED <<mpc, upConn, clConn, browser_to_xai, msg, upLog, clLog>>

\* the iteration over xai_ws ends or raises: the connection is closed
X2BReceiveFail ==
    /\ xai_to_browser = "recv"
    /\ upConn = "closed"
    /\ xai_to_browser' = "done"
    /\ UNCHANGED <<mpc, upConn, clConn, browser_to_xai, msg, event, upLog, clLog, nFrames>>

\* websocket.send_text(raw_msg)
X2BForward ==
    /\ xai_to_browser = "forward"
    /\ clLog' = Append(clLog, Sent("xai_to_browser", event.type, event, clConn = "open"))
    /\ xai_to_browser' = IF clConn = "open" THEN "recv" ELSE "done"
    /\ event' = IF clConn = "open" THEN NoEvent ELSE event
    /\ UNCHANGED <<mpc, upConn, clConn, browser_to_xai, msg, upLog, nFrames>>

\* a dispatcher that indexes FUNCTION_HANDLERS[func_name]: KeyError ends the loop
AfterStartedStrictLookup(e) ==
    CASE ~Hashable(e.name) -> "done"
      [] Hashable(e.name) /\ e.name \in FUNCTION_HANDLERS -> "in_handler"
      [] OTHER -> "done"

\* after the function.started send: FUNCTION_HANDLERS.get(func_name), and the
\* result at once when there is no handler
AfterStarted(e) ==
    CASE ~Hashable(e.name) -> "done"
      [] Hashable(e.name) /\ e.name \in FUNCTION_HANDLERS -> "in_handler"
      [] OTHER -> "output"

\* a dispatcher that does not announce the call
X2BSendStartedSkipped ==
    /\ xai_to_browser = "started"
    /\ xai_to_browser' = AfterStarted(event)
    /\ event' = CASE AfterStarted(event) = "output" ->
                         [event EXCEPT !.result = UnknownFunction(event.name)]
                  [] AfterStarted(event) = "in_handler" ->
                         [event EXCEPT !.handler = "op1"]
                  [] OTHER -> event
    /\ UNCHANGED <<mpc, upConn, clConn, browser_to_xai, msg, upLog, clLog, nFrames>>

\* websocket.send_json(function.started), errors swallowed
X2BSendStarted ==
    /\ xai_to_browser = "started"
    /\ clLog' = Append(clLog, Sent("xai_to_browser", "function.started", event, clConn = "open"))
    /\ xai_to_browser' = AfterStarted(event)
    /\ event' = CASE AfterStarted(event) = "output" ->
                         [event EXCEPT !.result = UnknownFunction(event.name)]
                  [] AfterStarted(event) = "in_handler" ->
                         [event EXCEPT !.handler = "op1"]
                  [] OTHER -> event
    /\ UNCHANGED <<mpc, upConn, clConn, browser_to_xai, msg, upLog, nFrames>>

\* the handler's first store operation is over (the scan of create_ticket,
\* whose failure is swallowed); it awaits the second
X2BHandlerStore ==
    /\ xai_to_browser = "in_handler"
    /\ event.handler = "op1"
    /\ ~HandlerAtLastOp(event)
    /\ event' = [event EXCEPT !.handler = "op2"]
    /\ UNCHANGED <<mpc, upConn, clConn, browser_to_xai, xai_to_browser, msg, upLog, clLog, nFrames>>

\* a dispatcher that lets a handler's exception end the loop
X2BHandlerReturnUncaught ==
    /\ xai_to_browser = "in_handler"
    /\ HandlerAtLastOp(event)
    /\ \E storeUp \in BOOLEAN :
          LET o == HandlerOutcome(event.name, event.func_args, storeUp) IN
            /\ event' = [event EXCEPT !.handler = "none",
                                      !.raised = (o = "raise"),
                                      !.result = DispatchResult(o)]
            /\ xai_to_browser' = IF o = "raise" THEN "done" ELSE "output"
    /\ UNCHANGED <<mpc, upConn, clConn, browser_to_xai, msg, upLog, clLog, nFrames>>

\* the handler returns or raises; an exception becomes a result
X2BHandlerReturn ==
    /\ xai_to_browser = "in_handler"
    /\ HandlerAtLastOp(event)
    /\ \E storeUp \in BOOLEAN :
          LET o == HandlerOutcome(event.name, event.func_args, storeUp) IN
            event' = [event EXCEPT !.handler = "none",
                                   !.raised = (o = "raise"),
                                   !.result = DispatchResult(o)]
    /\ xai_to_browser' = "output"
    /\ UNCHANGED <<mpc, upConn, clConn, browser_to_xai, msg, upLog, clLog, nFrames>>

\* a dispatcher whose loop a failed output send ends
AfterOutputUncaught(ok) == IF ok THEN "create" ELSE "done"

\* after the function_call_output send: response.create is in the same try,
\* a failure of the output send skips it
AfterOutput(ok) == IF ok THEN "create" ELSE "executed"

\* a dispatcher that goes on to response.create after a failed output send
X2BSendOutputThenCreate ==
    /\ xai_to_browser = "output"
    /\ upLog' = Append(upLog, Sent("xai_to_browser", "function_call_output", event, upConn = "open"))
    /\ xai_to_browser' = "create"
    /\ UNCHANGED <<mpc, upConn, clConn, browser_to_xai, msg, event, clLog, nFrames>>

\* xai_ws.send(conversation.item.create with the function_call_output)
X2BSendOutput ==
    /\ xai_to_browser = "output"
    /\ upLog' = Append(upLog, Sent("xai_to_browser", "function_call_output", event, upConn = "open"))
    /\ xai_to_browser' = AfterOutput(upConn = "open")
    /\ UNCHANGED <<mpc, upConn, clConn, browser_to_xai, msg, event, clLog, nFrames>>

\* a dispatcher that reads the next frame without notifying the browser
X2BSendCreateThenReceive ==
    /\ xai_to_browser = "create"
    /\ upLog' = Append(upLog, Sent("xai_to_browser", "response.create", event, upConn = "open"))
    /\ xai_to_browser' = "recv"
    /\ event' = NoEvent
    /\ UNCHANGED <<mpc, upConn, clConn, browser_to_xai, msg, clLog, nFrames>>

\* xai_ws.send(response.create)
X2BSendCreate ==
    /\ xai_to_browser = "create"
    /\ upLog' = Append(upLog, Sent("xai_to_browser", "response.create", event, upConn = "open"))
    /\ xai_to_browser' = "executed"
    /\ UNCHANGED <<mpc, upConn, clConn, browser_to_xai, msg, event, clLog, nFrames>>

\* a dispatcher that notifies the browser without the handler's result
X2BSendExecutedNoResult ==
    /\ xai_to_browser = "executed"
    /\ clLog' = Append(clLog, Sent("xai_to_browser", "function.executed",
                                   [event EXCEPT !.result = NoResult], clConn = "open"))
    /\ xai_to_browser' = "recv"
    /\ event' = NoEvent
    /\ UNCHANGED <<mpc, upConn, clConn, browser_to_xai, msg, upLog, nFrames>>

\* websocket.send_json(function.executed), errors swallowed; next frame
X2BSendExecuted ==
    /\ xai_to_browser = "executed"
    /\ clLog' = Append(clLog, Sent("xai_to_browser", "function.executed", event, clConn = "open"))
    /\ xai_to_browser' = "recv"
    /\ event' = NoEvent
    /\ UNCHANGED <<mpc, upConn, clConn, browser_to_xai, msg, upLog, nFrames>>

---------------------------------------------------------------------------
(* The session as a whole, beside a store it does not change here *)

\* the incident collection as startup_event seeds it; no call in progress
IncidentsAtStartup ==
    /\ priority_incidents = PRIORITY_INCIDENT_SEED
    /\ joins = [c \in Joiners |-> IdleJoin]
    /\ toggle = NoToggle
    /\ nTog = 0
    /\ affected0 = [id \in DOMAIN PRIORITY_INCIDENT_SEED |-> PRIORITY_INCIDENT_SEED[id].affected]
    /\ togNet = [id \in DOMAIN PRIORITY_INCIDENT_SEED |-> 0]

RelayIdle ==
    /\ mpc = "connect"
    /\ upConn = "none"
    /\ clConn = "open"
    /\ browser_to_xai = "none"
    /\ xai_to_browser = "none"
    /\ msg = NoMsg
    /\ event = NoEvent
    /\ upLog = << >>
    /\ clLog = << >>
    /\ nFrames = 0
    /\ cfg = "none"

\* no agent_config document until an administrator saves one
ConfigAtStartup == config_col = "none"

\* startup_event has run on the empty store, every write accepted, and the
\* process serves requests
Serving == [pc |-> "serving", i |-> 0, boots |-> 1, faults |-> 0,
            empty |-> TRUE, populated |-> FALSE]

StartupOver == startup = Serving

\* the knowledge base holds its seed
KbAtStartup ==
    /\ kb_col = KB_SEED
    /\ kbCalls = [w \in Writers |-> IdleKbCall]
    /\ nKbDel = 0

TicketsAtStartup ==
    /\ tickets = TICKET_SEED
    /\ calls = [c \in Callers |-> IdleCall]
    /\ deleted = {}
    /\ scanFault = FALSE
    /\ nDel = 0
    /\ nUpd = 0
    /\ nGet = 0
    /\ last = NoRequest
    /\ clock = 0
    /\ updates = [w \in Writers |-> IdleUpdate]
    /\ others = [c \in Callers |-> 0]

InitRelay == TicketsAtStartup /\ RelayIdle /\ IncidentsAtStartup /\ ConfigAtStartup /\ KbAtStartup /\ StartupOver

NextRelay ==
    \/ MainConnect /\ UNCHANGED <<startupVars, kbVars, ticketVars, incidentVars, configVars>>
    \/ MainConnectFail /\ UNCHANGED <<startupVars, kbVars, ticketVars, incidentVars, configVars>>
    \/ MainConfig /\ UNCHANGED <<startupVars, kbVars, ticketVars, incidentVars, config_col>>
    \/ MainConfigFail /\ UNCHANGED <<startupVars, kbVars, ticketVars, incidentVars, configVars>>
    \/ MainSessionUpdate /\ UNCHANGED <<startupVars, kbVars, ticketVars, incidentVars, configVars>>
    \/ MainWaitReturn /\ UNCHANGED <<startupVars, kbVars, ticketVars, incidentVars, configVars>>
    \/ MainCloseUpstream /\ UNCHANGED <<startupVars, kbVars, ticketVars, incidentVars, configVars>>
    \/ MainExcept /\ UNCHANGED <<startupVars, kbVars, ticketVars, incidentVars, configVars>>
    \/ MainFinally /\ UNCHANGED <<startupVars, kbVars, ticketVars, incidentVars, configVars>>
    \/ ClientDisconnect /\ UNCHANGED <<startupVars, kbVars, ticketVars, incidentVars, configVars>>
    \/ UpstreamDisconnect /\ UNCHANGED <<startupVars, kbVars, ticketVars, incidentVars, configVars>>
    \/ \E f \in ClientFrames : nFrames < MaxFrames /\ B2XReceive(f) /\ UNCHANGED <<startupVars, kbVars, ticketVars, incidentVars, configVars>>
    \/ B2XReceiveFail /\ UNCHANGED <<startupVars, kbVars, ticketVars, incidentVars, configVars>>
    \/ B2XSend /\ UNCHANGED <<startupVars, kbVars, ticketVars, incidentVars, configVars>>
    \/ \E f \in UpstreamFrames : nFrames < MaxFrames /\ X2BReceive(f) /\ UNCHANGED <<startupVars, kbVars, ticketVars, incidentVars, configVars>>
    \/ X2BReceiveFail /\ UNCHANGED <<startupVars, kbVars, ticketVars, incidentVars, configVars>>
    \/ X2BForward /\ UNCHANGED <<startupVars, kbVars, ticketVars, incidentVars, configVars>>
    \/ X2BSendStarted /\ UNCHANGED <<startupVars, kbVars, ticketVars, incidentVars, configVars>>
    \/ X2BHandlerStore /\ UNCHANGED <<startupVars, kbVars, ticketVars, incidentVars, configVars>>
    \/ X2BHandlerReturn /\ UNCHANGED <<startupVars, kbVars, ticketVars, incidentVars, configVars>>
    \/ X2BSendOutput /\ UNCHANGED <<startupVars, kbVars, ticketVars, incidentVars, configVars>>
    \/ X2BSendCreate /\ UNCHANGED <<startupVars, kbVars, ticketVars, incidentVars, configVars>>
    \/ X2BSendExecuted /\ UNCHANGED <<startupVars, kbVars, ticketVars, incidentVars, configVars>>

SpecRelay == InitRelay /\ [][NextRelay]_vars

----------------------------------------------------------------------------
(* One session beside an administrator who saves and resets the agent
   configuration *)

\* the documents PUT /api/admin/config may store
ConfigDocs == {"saved"}

\* update_config: upsert of the agent_config document
UpdateConfig(doc) ==
    /\ config_col' = doc
    /\ UNCHANGED cfg

\* reset_config: delete_one
ResetConfig ==
    /\ config_col' = "none"
    /\ UNCHANGED cfg

SetupClientFrames == {CFrame("object", "response.create")}

SetupUpstreamFrames ==
    {UFrame("object", "response.output_audio.delta", "", "", "absent"),
     UFrame("object", FunctionCallDone, "create_ticket", "call_a", "object")}

InitSetup ==
    /\ TicketsAtStartup
    /\ IncidentsAtStartup
    /\ RelayIdle
    /\ KbAtStartup /\ StartupOver
    /\ config_col \in ConfigDocs \cup {"none"}

NextSetup ==
    \/ \E doc \in ConfigDocs :
          /\ UpdateConfig(doc)
          /\ UNCHANGED <<startupVars, kbVars, ticketVars, incidentVars, mpc, upConn, clConn, browser_to_xai,
                         xai_to_browser, msg, event, upLog, clLog, nFrames>>
    \/ /\ ResetConfig
       /\ UNCHANGED <<startupVars, kbVars, ticketVars, incidentVars, mpc, upConn, clConn, browser_to_xai,
                      xai_to_browser, msg, event, upLog, clLog, nFrames>>
    \/ MainConnect /\ UNCHANGED <<startupVars, kbVars, ticketVars, incidentVars, configVars>>
    \/ MainConnectFail /\ UNCHANGED <<startupVars, kbVars, ticketVars, incidentVars, configVars>>
    \/ MainConfig /\ UNCHANGED <<startupVars, kbVars, ticketVars, incidentVars, config_col>>
    \/ MainConfigFail /\ UNCHANGED <<startupVars, kbVars, ticketVars, incidentVars, configVars>>
    \/ MainSessionUpdate /\ UNCHANGED <<startupVars, kbVars, ticketVars, incidentVars, configVars>>
    \/ MainWaitReturn /\ UNCHANGED <<startupVars, kbVars, ticketVars, incidentVars, configVars>>
    \/ MainCloseUpstream /\ UNCHANGED <<startupVars, kbVars, ticketVars, incidentVars, configVars>>
    \/ MainExcept /\ UNCHANGED <<startupVars, kbVars, ticketVars, incidentVars, configVars>>
    \/ MainFinally /\ UNCHANGED <<startupVars, kbVars, ticketVars, incidentVars, configVars>>
    \/ ClientDisconnect /\ UNCHANGED <<startupVars, kbVars, ticketVars, incidentVars, configVars>>
    \/ UpstreamDisconnect /\ UNCHANGED <<startupVars, kbVars, ticketVars, incidentVars, configVars>>
    \/ \E f \in SetupClientFrames : nFrames < MaxFrames /\ B2XReceive(f) /\ UNCHANGED <<startupVars, kbVars, ticketVars, incidentVars, configVars>>
    \/ B2XReceiveFail /\ UNCHANGED <<startupVars, kbVars, ticketVars, incidentVars, configVars>>
    \/ B2XSend /\ UNCHANGED <<startupVars, kbVars, ticketVars, incidentVars, configVars>>
    \/ \E f \in SetupUpstreamFrames : nFrames < MaxFrames /\ X2BReceive(f) /\ UNCHANGED <<startupVars, kbVars, ticketVars, incidentVars, configVars>>
    \/ X2BReceiveFail /\ UNCHANGED <<startupVars, kbVars, ticketVars, incidentVars, configVars>>
    \/ X2BForward /\ UNCHANGED <<startupVars, kbVars, ticketVars, incidentVars, configVars>>
    \/ X2BSendStarted /\ UNCHANGED <<startupVars, kbVars, ticketVars, incidentVars, configVars>>
    \/ X2BHandlerStore /\ UNCHANGED <<startupVars, kbVars, ticketVars, incidentVars, configVars>>
    \/ X2BHandlerReturn /\ UNCHANGED <<startupVars, kbVars, ticketVars, incidentVars, configVars>>
    \/ X2BSendOutput /\ UNCHANGED <<startupVars, kbVars, ticketVars, incidentVars, configVars>>
    \/ X2BSendCreate /\ UNCHANGED <<startupVars, kbVars, ticketVars, incidentVars, configVars>>
    \/ X2BSendExecuted /\ UNCHANGED <<startupVars, kbVars, ticketVars, incidentVars, configVars>>

SpecSetup == InitSetup /\ [][NextSetup]_vars

----------------------------------------------------------------------------
(* One session whose function calls carry no usable arguments: their handlers
   raise before a second store operation, X2BHandlerStore has no part *)

CallClientFrames == {CFrame("object", "response.create")}

CallUpstreamFrames ==
    {UFrame("object", "response.output_audio.delta", "", "", "absent"),
     UFrame("object", FunctionCallDone, "get_ticket", "call_a", "invalid"),
     UFrame("object", FunctionCallDone, "create_ticket", "call_b", "absent")}

NextCalls ==
    \/ MainConnect /\ UNCHANGED <<startupVars, kbVars, ticketVars, incidentVars, configVars>>
    \/ MainConnectFail /\ UNCHANGED <<startupVars, kbVars, ticketVars, incidentVars, configVars>>
    \/ MainConfig /\ UNCHANGED <<startupVars, kbVars, ticketVars, incidentVars, config_col>>
    \/ MainConfigFail /\ UNCHANGED <<startupVars, kbVars, ticketVars, incidentVars, configVars>>
    \/ MainSessionUpdate /\ UNCHANGED <<startupVars, kbVars, ticketVars, incidentVars, configVars>>
    \/ MainWaitReturn /\ UNCHANGED <<startupVars, kbVars, ticketVars, incidentVars, configVars>>
    \/ MainCloseUpstream /\ UNCHANGED <<startupVars, kbVars, ticketVars, incidentVars, configVars>>
    \/ MainExcept /\ UNCHANGED <<startupVars, kbVars, ticketVars, incidentVars, configVars>>
    \/ MainFinally /\ UNCHANGED <<startupVars, kbVars, ticketVars, incidentVars, configVars>>
    \/ ClientDisconnect /\ UNCHANGED <<startupVars, kbVars, ticketVars, incidentVars, configVars>>
    \/ UpstreamDisconnect /\ UNCHANGED <<startupVars, kbVars, ticketVars, incidentVars, configVars>>
    \/ \E f \in CallClientFrames : nFrames < MaxCallFrames /\ B2XReceive(f) /\ UNCHANGED <<startupVars, kbVars, ticketVars, incidentVars, configVars>>
    \/ B2XReceiveFail /\ UNCHANGED <<startupVars, kbVars, ticketVars, incidentVars, configVars>>
    \/ B2XSend /\ UNCHANGED <<startupVars, kbVars, ticketVars, incidentVars, configVars>>
    \/ \E f \in CallUpstreamFrames : nFrames < MaxCallFrames /\ X2BReceive(f) /\ UNCHANGED <<startupVars, kbVars, ticketVars, incidentVars, configVars>>
    \/ X2BReceiveFail /\ UNCHANGED <<startupVars, kbVars, ticketVars, incidentVars, configVars>>
    \/ X2BForward /\ UNCHANGED <<startupVars, kbVars, ticketVars, incidentVars, configVars>>
    \/ X2BSendStarted /\ UNCHANGED <<startupVars, kbVars, ticketVars, incidentVars, configVars>>
    \/ X2BHandlerReturn /\ UNCHANGED <<startupVars, kbVars, ticketVars, incidentVars, configVars>>
    \/ X2BSendOutput /\ UNCHANGED <<startupVars, kbVars, ticketVars, incidentVars, configVars>>
    \/ X2BSendCreate /\ UNCHANGED <<startupVars, kbVars, ticketVars, incidentVars, configVars>>
    \/ X2BSendExecuted /\ UNCHANGED <<startupVars, kbVars, ticketVars, incidentVars, configVars>>

SpecCalls == InitRelay /\ [][NextCalls]_vars

\* a step of the session handler or of one of its two tasks: everything but
\* the arrival of a frame and the disconnection of a peer
SessionStep ==
    \/ MainConfig /\ UNCHANGED <<startupVars, kbVars, ticketVars, incidentVars, config_col>>
    \/ /\ \/ MainConnect \/ MainConnectFail \/ MainConfigFail
          \/ MainSessionUpdate \/ MainWaitReturn \/ MainCloseUpstream
          \/ MainExcept \/ MainFinally
          \/ B2XReceiveFail \/ B2XSend
          \/ X2BReceiveFail \/ X2BForward \/ X2BSendStarted \/ X2BHandlerStore
          \/ X2BHandlerReturn \/ X2BSendOutput \/ X2BSendCreate \/ X2BSendExecuted
       /\ UNCHANGED <<startupVars, kbVars, ticketVars, incidentVars, configVars>>

\* the event loop runs a coroutine that is ready, and every await on the
\* store or on a socket returns or raises
SpecCallsFair == SpecCalls /\ WF_vars(SessionStep)

----------------------------------------------------------------------------
(* create_ticket calls alone, on a store emptied of its seed tickets *)

InitCreate ==
    /\ RelayIdle
    /\ ConfigAtStartup
    /\ KbAtStartup /\ StartupOver
    /\ IncidentsAtStartup
    /\ tickets = << >>
    /\ calls = [c \in Callers |-> IdleCall]
    /\ deleted = {}
    /\ scanFault = FALSE
    /\ nDel = 0
    /\ nUpd = 0
    /\ nGet = 0
    /\ last = NoRequest
    /\ clock = 0
    /\ updates = [w \in Writers |-> IdleUpdate]
    /\ others = [c \in Callers |-> 0]

\* history: an insertion counts for every other call between its scan and its
\* return, up to the number of passes of the retry loop
OthersAfterInsert(c) ==
    [d \in Callers |->
        IF d # c /\ calls[d].pc = "insert" /\ others[d] < 3 THEN others[d] + 1 ELSE others[d]]

NextCreate ==
    \/ \E c \in Callers : CreateScan(c) /\ UNCHANGED <<startupVars, kbVars, relayVars, incidentVars, timeVars, others>>
    \/ \E c \in Callers : CreateScanFail(c) /\ UNCHANGED <<startupVars, kbVars, relayVars, incidentVars, timeVars, others>>
    \/ \E c \in Callers :
          /\ CreateInsertOk(c)
          /\ others' = OthersAfterInsert(c)
          /\ UNCHANGED <<startupVars, kbVars, relayVars, incidentVars, timeVars>>
    \/ \E c \in Callers : CreateInsertDuplicate(c) /\ UNCHANGED <<startupVars, kbVars, relayVars, incidentVars, timeVars, others>>
    \/ \E c \in Callers : CreateInsertError(c) /\ UNCHANGED <<startupVars, kbVars, relayVars, incidentVars, timeVars, others>>

SpecCreate == InitCreate /\ [][NextCreate]_vars

----------------------------------------------------------------------------
(* The seeded ticket store under creates, deletes and updates *)

InitTickets == TicketsAtStartup /\ RelayIdle /\ IncidentsAtStartup /\ ConfigAtStartup /\ KbAtStartup /\ StartupOver

NextTickets ==
    \/ \E c \in Writers : CreateScan(c) /\ UNCHANGED <<startupVars, kbVars, relayVars, incidentVars, timeVars, others>>
    \/ \E c \in Writers : CreateScanFail(c) /\ UNCHANGED <<startupVars, kbVars, relayVars, incidentVars, timeVars, others>>
    \/ \E c \in Writers : CreateInsertOk(c) /\ UNCHANGED <<startupVars, kbVars, relayVars, incidentVars, timeVars, others>>
    \/ \E c \in Writers : CreateInsertDuplicate(c) /\ UNCHANGED <<startupVars, kbVars, relayVars, incidentVars, timeVars, others>>
    \/ \E c \in Writers : CreateInsertError(c) /\ UNCHANGED <<startupVars, kbVars, relayVars, incidentVars, timeVars, others>>
    \/ \E raw \in ClientIds : DeleteTicket(raw) /\ UNCHANGED <<startupVars, kbVars, relayVars, incidentVars, timeVars, others>>
    \/ \E raw \in ClientIds, status \in UpdateStatuses, note \in {"", "fixed"} :
          UpdateTicketStatus(raw, status, note) /\ UNCHANGED last /\ UNCHANGED <<startupVars, kbVars, relayVars, incidentVars, timeVars, others>>
    \/ \E raw \in ClientIds : UpdateTicketApi(raw) /\ UNCHANGED <<startupVars, kbVars, relayVars, incidentVars, timeVars, others>>

SpecTickets == InitTickets /\ [][NextTickets]_vars

----------------------------------------------------------------------------
(* The service desk seen by one client: it creates, updates, deletes and
   looks tickets up on the seeded store, one request after the other *)

InitDesk == TicketsAtStartup /\ RelayIdle /\ IncidentsAtStartup /\ ConfigAtStartup /\ KbAtStartup /\ StartupOver

NextDesk ==
    \/ CreateScan(1) /\ UNCHANGED <<startupVars, kbVars, relayVars, incidentVars, timeVars, others>>
    \/ CreateInsertOk(1) /\ UNCHANGED <<startupVars, kbVars, relayVars, incidentVars, timeVars, others>>
    \/ CreateInsertError(1) /\ UNCHANGED <<startupVars, kbVars, relayVars, incidentVars, timeVars, others>>
    \/ \E raw \in DeskIds : DeleteTicket(raw) /\ UNCHANGED <<startupVars, kbVars, relayVars, incidentVars, timeVars, others>>
    \/ \E raw \in DeskIds, status \in UpdateStatuses, note \in UpdateNotes :
          /\ UpdateTicketStatus(raw, status, note)
          /\ last' = UpdateTicketStatusReply(raw, status, note)
          /\ UNCHANGED <<startupVars, kbVars, relayVars, incidentVars, timeVars, others>>
    \/ \E raw \in DeskIds : UpdateTicketApi(raw) /\ UNCHANGED <<startupVars, kbVars, relayVars, incidentVars, timeVars, others>>
    \/ \E raw \in DeskIds : GetTicket(raw) /\ UNCHANGED <<startupVars, kbVars, relayVars, incidentVars, timeVars, others>>
    \/ \E raw \in DeskIds : GetTicketApi(raw) /\ UNCHANGED <<startupVars, kbVars, relayVars, incidentVars, timeVars, others>>

SpecDesk == InitDesk /\ [][NextDesk]_vars

----------------------------------------------------------------------------
(* The seeded store while the clock runs: one create_ticket call, deletions
   and update requests of several writers whose update_one calls are in
   flight together *)

\* the last seed ticket and the first identifier beyond the seed
TimesIds == RawIds({"TKT"}, {Len(TICKET_SEED), Len(TICKET_SEED) + 1})

TimesStatuses == {"open", "closed"}

InitTimes == TicketsAtStartup /\ RelayIdle /\ IncidentsAtStartup /\ ConfigAtStartup /\ KbAtStartup /\ StartupOver

NextTimes ==
    \/ Tick /\ UNCHANGED <<startupVars, kbVars, relayVars, incidentVars, others>>
    \/ CreateScan(1) /\ UNCHANGED <<startupVars, kbVars, relayVars, incidentVars, timeVars, others>>
    \/ CreateInsertOk(1) /\ UNCHANGED <<startupVars, kbVars, relayVars, incidentVars, timeVars, others>>
    \/ \E raw \in TimesIds : DeleteTicket(raw) /\ UNCHANGED <<startupVars, kbVars, relayVars, incidentVars, timeVars, others>>
    \/ \E w \in Writers : UpdateTicketStatusCall(w) /\ UNCHANGED <<startupVars, kbVars, relayVars, incidentVars, others>>
    \/ \E w \in Writers, raw \in TimesIds, status \in TimesStatuses :
          UpdateTicketStatusStore(w, raw, status, "") /\ UNCHANGED <<startupVars, kbVars, relayVars, incidentVars, others>>
    \/ \E w \in Writers : UpdateTicketApiCall(w) /\ UNCHANGED <<startupVars, kbVars, relayVars, incidentVars, others>>
    \/ \E w \in Writers, raw \in TimesIds, status \in {"", "in_progress"}, prio \in {"", "critical"} :
          UpdateTicketApiStore(w, raw, status, "", prio) /\ UNCHANGED <<startupVars, kbVars, relayVars, incidentVars, others>>

SpecTimes == InitTimes /\ [][NextTimes]_vars

----------------------------------------------------------------------------
(* The incident counters under concurrent add_me_to_priority_incident calls
   and toggle_affected requests *)

InitIncidents ==
    /\ TicketsAtStartup
    /\ RelayIdle
    /\ ConfigAtStartup
    /\ KbAtStartup /\ StartupOver
    /\ \E a \in 0..MaxStart :
          /\ priority_incidents = StoredIncidents(a)
          /\ affected0 = [id \in DOMAIN StoredIncidents(a) |-> StoredIncidents(a)[id].affected]
          /\ togNet = [id \in DOMAIN StoredIncidents(a) |-> 0]
    /\ joins = [c \in Joiners |-> IdleJoin]
    /\ toggle = NoToggle
    /\ nTog = 0

NextIncidents ==
    \/ \E c \in Joiners, raw \in IncidentRequests :
          AddMeFind(c, raw) /\ UNCHANGED <<startupVars, kbVars, ticketVars, relayVars>>
    \/ \E c \in Joiners : AddMeIncrement(c) /\ UNCHANGED <<startupVars, kbVars, ticketVars, relayVars>>
    \/ \E c \in Joiners : AddMeIncrementFail(c) /\ UNCHANGED <<startupVars, kbVars, ticketVars, relayVars>>
    \/ \E raw \in IncidentRequests, action \in {"add", "<absent>", "remove"} :
          ToggleAffected(raw, action) /\ UNCHANGED <<startupVars, kbVars, ticketVars, relayVars>>
    \/ ToggleFind /\ UNCHANGED <<startupVars, kbVars, ticketVars, relayVars>>

SpecIncidents == InitIncidents /\ [][NextIncidents]_vars

----------------------------------------------------------------------------
(* Listings taken from a store that create_ticket calls have filled and
   update_ticket_status calls have closed some tickets of *)

\* the k-th ticket created after the seed: stamps differ with every == 1 and
\* are shared by two tickets with every == 2
Created(k, closed, every) ==
    [NewTicket(FormatTicketId(Len(TICKET_SEED) + k), "medium", (k + every - 1) \div every)
        EXCEPT !.status = IF k \in closed THEN "closed" ELSE "open"]

StoreOf(n, closed, every) ==
    TICKET_SEED \o [k \in 1..(n - Len(TICKET_SEED)) |-> Created(k, closed, every)]

InitList ==
    /\ RelayIdle /\ IncidentsAtStartup /\ ConfigAtStartup /\ KbAtStartup /\ StartupOver
    /\ calls = [c \in Callers |-> IdleCall]
    /\ deleted = {}
    /\ scanFault = FALSE
    /\ nDel = 0
    /\ nUpd = 0
    /\ nGet = 0
    /\ last = NoRequest
    /\ clock = 0
    /\ updates = [w \in Writers |-> IdleUpdate]
    /\ others = [c \in Callers |-> 0]
    /\ \E n \in {Len(TICKET_SEED), MaxStore - 1, MaxStore}, every \in {1, 2} :
          \E closed \in SUBSET (1..(n - Len(TICKET_SEED))) :
             /\ Cardinality(closed) <= MaxClosed
             /\ tickets = StoreOf(n, closed, every)

NextList ==
    \/ \E status \in ListStatuses :
          HandleListTickets(status) /\ UNCHANGED <<startupVars, kbVars, relayVars, incidentVars, timeVars, others>>
    \/ \E status \in ListStatuses \cup {""} :
          ListTickets(status) /\ UNCHANGED <<startupVars, kbVars, relayVars, incidentVars, timeVars, others>>

SpecList == InitList /\ [][NextList]_vars

----------------------------------------------------------------------------
(* The knowledge base under article creations, uploads and deletions *)

\* identifiers of stored articles and one beyond, in two letter-casings
ArticleIds ==
    {[pre |-> p, num |-> FormatArticleId(n).num] :
        p \in {"KB", "kb"}, n \in {Len(KB_SEED) - 1, Len(KB_SEED), Len(KB_SEED) + 1}}

InitKb == TicketsAtStartup /\ RelayIdle /\ IncidentsAtStartup /\ ConfigAtStartup /\ KbAtStartup /\ StartupOver

NextKb ==
    \/ \E w \in Writers : CreateKbArticleCount(w) /\ UNCHANGED <<startupVars, ticketVars, relayVars, incidentVars>>
    \/ \E w \in Writers : CreateKbArticleInsert(w) /\ UNCHANGED <<startupVars, ticketVars, relayVars, incidentVars>>
    \/ \E w \in Writers, n \in 1..MaxArticles :
          UploadKbDocumentStart(w, n) /\ UNCHANGED <<startupVars, ticketVars, relayVars, incidentVars>>
    \/ \E w \in Writers : UploadKbDocumentCount(w) /\ UNCHANGED <<startupVars, ticketVars, relayVars, incidentVars>>
    \/ \E w \in Writers : UploadKbDocumentInsert(w) /\ UNCHANGED <<startupVars, ticketVars, relayVars, incidentVars>>
    \/ \E raw \in ArticleIds : DeleteKbArticle(raw) /\ UNCHANGED <<startupVars, ticketVars, relayVars, incidentVars>>

SpecKb == InitKb /\ [][NextKb]_vars

----------------------------------------------------------------------------
(* startup_event: the seeding of an empty store, and the process started
   again on the store it left *)

\* the order of PRIORITY_INCIDENT_SEED
SeedIncidentIds == <<IncidentId("INC", "0085"), IncidentId("INC", "0082")>>

NoIncidents == [id \in {} |-> 0]

\* one step of startup_event that leaves the three collections alone
StartupMoves(to, i) ==
    /\ startup' = [startup EXCEPT !.pc = to, !.i = i]
    /\ UNCHANGED <<kb_col, tickets, priority_incidents, affected0, togNet>>

\* a seed write that raised: except Exception: pass
StartupSkips(to, i) ==
    /\ startup.faults < MaxFaults
    /\ startup' = [startup EXCEPT !.pc = to, !.i = i, !.faults = @ + 1]
    /\ UNCHANGED <<kb_col, tickets, priority_incidents, affected0, togNet>>

\* the two create_index calls, errors swallowed
StartupIndexes ==
    /\ startup.pc = "indexes"
    /\ StartupMoves("kb_count", 0)

\* a startup that seeds the knowledge base whatever it holds
StartupKbCountAlways ==
    /\ startup.pc = "kb_count"
    /\ StartupMoves("kb_insert", 1)

\* kb_count = await kb_col.count_documents({}); if kb_count == 0
StartupKbCount ==
    /\ startup.pc = "kb_count"
    /\ IF Len(kb_col) = 0
       THEN StartupMoves("kb_insert", 1)
       ELSE StartupMoves("ticket_count", 0)

\* a count_documents that raises leaves startup_event: the process does not
\* come up
StartupCountFail ==
    /\ startup.pc \in {"kb_count", "ticket_count"}
    /\ StartupMoves("crashed", 0)

\* where the loop over a seed of n documents goes after its i-th
AfterSeed(i, n, loop, next) ==
    IF i < n THEN [pc |-> loop, i |-> i + 1] ELSE [pc |-> next, i |-> 0]

\* await kb_col.insert_one(art.copy())
StartupKbInsert ==
    /\ startup.pc = "kb_insert"
    /\ kb_col' = Append(kb_col, KB_SEED[startup.i])
    /\ LET to == AfterSeed(startup.i, Len(KB_SEED), "kb_insert", "ticket_count")
       IN startup' = [startup EXCEPT !.pc = to.pc, !.i = to.i]
    /\ UNCHANGED <<tickets, priority_incidents, affected0, togNet>>

StartupKbInsertFail ==
    /\ startup.pc = "kb_insert"
    /\ LET to == AfterSeed(startup.i, Len(KB_SEED), "kb_insert", "ticket_count")
       IN StartupSkips(to.pc, to.i)

\* ticket_count = await tickets_col.count_documents({}); if ticket_count == 0
StartupTicketCount ==
    /\ startup.pc = "ticket_count"
    /\ IF Len(tickets) = 0
       THEN StartupMoves("ticket_insert", 1)
       ELSE StartupMoves("incidents", 1)

\* await tickets_col.insert_one(ticket.copy())
StartupTicketInsert ==
    /\ startup.pc = "ticket_insert"
    /\ tickets' = Append(tickets, TICKET_SEED[startup.i])
    /\ LET to == AfterSeed(startup.i, Len(TICKET_SEED), "ticket_insert", "incidents")
       IN startup' = [startup EXCEPT !.pc = to.pc, !.i = IF to.pc = "incidents" THEN 1 ELSE to.i]
    /\ UNCHANGED <<kb_col, priority_incidents, affected0, togNet>>

StartupTicketInsertFail ==
    /\ startup.pc = "ticket_insert"
    /\ LET to == AfterSeed(startup.i, Len(TICKET_SEED), "ticket_insert", "incidents")
       IN StartupSkips(to.pc, IF to.pc = "incidents" THEN 1 ELSE to.i)

\* update_one({"incident_id": ...}, {"$setOnInsert": inc_copy}, upsert=True):
\* a stored incident is left as it is, a missing one is inserted
StartupIncidentUpsert ==
    /\ startup.pc = "incidents"
    /\ LET id == SeedIncidentIds[startup.i]
           to == AfterSeed(startup.i, Len(SeedIncidentIds), "incidents", "serving")
       IN /\ IF id \in DOMAIN priority_incidents
             THEN UNCHANGED <<priority_incidents, affected0, togNet>>
             ELSE /\ priority_incidents' = (id :> PRIORITY_INCIDENT_SEED[id]) @@ priority_incidents
                  /\ affected0' = (id :> PRIORITY_INCIDENT_SEED[id].affected) @@ affected0
                  /\ togNet' = (id :> 0) @@ togNet
          /\ startup' = [startup EXCEPT !.pc = to.pc, !.i = to.i]
    /\ UNCHANGED <<kb_col, tickets>>

StartupIncidentUpsertFail ==
    /\ startup.pc = "incidents"
    /\ LET to == AfterSeed(startup.i, Len(SeedIncidentIds), "incidents", "serving")
       IN StartupSkips(to.pc, to.i)

\* the process is started again on the store as it is (empty, populated:
\* history, what this startup found)
Restart ==
    /\ startup.pc \in {"serving", "crashed"}
    /\ startup.boots < MaxBoots
    /\ toggle.pc = "idle"
    /\ startup' = [pc |-> "indexes", i |-> 0, boots |-> startup.boots + 1, faults |-> 0,
                   empty |-> (kb_col = << >> /\ tickets = << >>
                                /\ DOMAIN priority_incidents = {}),
                   populated |-> (kb_col # << >> /\ tickets # << >>
                                    /\ DOMAIN priority_incidents # {})]
    /\ UNCHANGED <<kb_col, tickets, priority_incidents, affected0, togNet>>

\* what an administrator deletes and the incident users join between two starts
StartupTicketIds == {FormatTicketId(1)}

StartupArticleIds == {[pre |-> "KB", num |-> FormatArticleId(Len(KB_SEED)).num]}

StartupIncidentRequests == {IncidentId("INC", "0082")}

InitStartup ==
    /\ startup = [pc |-> "indexes", i |-> 0, boots |-> 1, faults |-> 0,
                  empty |-> TRUE, populated |-> FALSE]
    /\ tickets = << >>
    /\ calls = [c \in Callers |-> IdleCall]
    /\ deleted = {}
    /\ scanFault = FALSE
    /\ nDel = 0 /\ nUpd = 0 /\ nGet = 0
    /\ last = NoRequest
    /\ clock = 0
    /\ updates = [w \in Writers |-> IdleUpdate]
    /\ others = [c \in Callers |-> 0]
    /\ kb_col = << >>
    /\ kbCalls = [w \in Writers |-> IdleKbCall]
    /\ nKbDel = 0
    /\ priority_incidents = NoIncidents
    /\ affected0 = NoIncidents
    /\ togNet = NoIncidents
    /\ joins = [c \in Joiners |-> IdleJoin]
    /\ toggle = NoToggle
    /\ nTog = 0
    /\ RelayIdle
    /\ ConfigAtStartup

NextStartup ==
    \/ StartupIndexes /\ UNCHANGED <<calls, deleted, scanFault, nDel, nUpd, nGet, last, clock, updates, others,
                                     kbCalls, nKbDel, joins, toggle, nTog, relayVars>>
    \/ StartupKbCount /\ UNCHANGED <<calls, deleted, scanFault, nDel, nUpd, nGet, last, clock, updates, others,
                                     kbCalls, nKbDel, joins, toggle, nTog, relayVars>>
    \/ StartupCountFail /\ UNCHANGED <<calls, deleted, scanFault, nDel, nUpd, nGet, last, clock, updates, others,
                                     kbCalls, nKbDel, joins, toggle, nTog, relayVars>>
    \/ StartupKbInsert /\ UNCHANGED <<calls, deleted, scanFault, nDel, nUpd, nGet, last, clock, updates, others,
                                     kbCalls, nKbDel, joins, toggle, nTog, relayVars>>
    \/ StartupKbInsertFail /\ UNCHANGED <<calls, deleted, scanFault, nDel, nUpd, nGet, last, clock, updates, others,
                                     kbCalls, nKbDel, joins, toggle, nTog, relayVars>>
    \/ StartupTicketCount /\ UNCHANGED <<calls, deleted, scanFault, nDel, nUpd, nGet, last, clock, updates, others,
                                     kbCalls, nKbDel, joins, toggle, nTog, relayVars>>
    \/ StartupTicketInsert /\ UNCHANGED <<calls, deleted, scanFault, nDel, nUpd, nGet, last, clock, updates, others,
                                     kbCalls, nKbDel, joins, toggle, nTog, relayVars>>
    \/ StartupTicketInsertFail /\ UNCHANGED <<calls, deleted, scanFault, nDel, nUpd, nGet, last, clock, updates, others,
                                     kbCalls, nKbDel, joins, toggle, nTog, relayVars>>
    \/ StartupIncidentUpsert /\ UNCHANGED <<calls, deleted, scanFault, nDel, nUpd, nGet, last, clock, updates, others,
                                     kbCalls, nKbDel, joins, toggle, nTog, relayVars>>
    \/ StartupIncidentUpsertFail /\ UNCHANGED <<calls, deleted, scanFault, nDel, nUpd, nGet, last, clock, updates, others,
                                     kbCalls, nKbDel, joins, toggle, nTog, relayVars>>
    \/ Restart /\ UNCHANGED <<calls, deleted, scanFault, nDel, nUpd, nGet, last, clock, updates, others,
                                     kbCalls, nKbDel, joins, toggle, nTog, relayVars>>
    \/ \E raw \in StartupTicketIds :
          /\ startup.pc = "serving"
          /\ DeleteTicket(raw)
          /\ UNCHANGED <<startupVars, kbVars, relayVars, incidentVars, timeVars, others>>
    \/ \E raw \in StartupArticleIds :
          /\ startup.pc = "serving"
          /\ DeleteKbArticle(raw)
          /\ UNCHANGED <<startupVars, ticketVars, relayVars, incidentVars>>
    \/ \E raw \in StartupIncidentRequests :
          /\ startup.pc = "serving"
          /\ ToggleAffected(raw, "add")
          /\ UNCHANGED <<startupVars, kbVars, ticketVars, relayVars>>
    \/ ToggleFind /\ UNCHANGED <<startupVars, kbVars, ticketVars, relayVars>>

SpecStartup == InitStartup /\ [][NextStartup]_vars

----------------------------------------------------------------------------
(* Properties of the ticket store *)

AllReturned == \A c \in Callers : calls[c].pc \in {"idle", "done"}

NumReturned == Cardinality({c \in Callers : calls[c].pc = "done"})

NumSucceeded == Cardinality({c \in Callers : calls[c].result = "success"})

NoStoreError == ~scanFault /\ \A c \in Callers : calls[c].result # "failed_error"

IdsUpTo(n) == {FormatTicketId(k) : k \in 1..n}

\* C1 as stated: once N concurrent create_ticket calls on the empty store have
\* all returned (store available, no deletion), the stored identifiers are
\* exactly TKT-001 .. TKT-00N.
C1_AllCallsStored ==
    (AllReturned /\ NoStoreError) =>
        (StoredIds = IdsUpTo(NumReturned) /\ Len(tickets) = NumReturned)

\* C1 amended: once all N calls have returned, the stored identifiers are
\* exactly TKT-001 .. TKT-00K, K the number of calls that returned success,
\* without duplicate or gap; K = N when N <= 3 and no insert failed for a
\* reason other than a duplicate key.
C1_SucceededCallsStored ==
    AllReturned =>
        /\ StoredIds = IdsUpTo(NumSucceeded)
        /\ Len(tickets) = NumSucceeded
        /\ (NumReturned <= 3 /\ NoStoreError) => NumSucceeded = NumReturned

\* four calls raced from the empty store: three stored, one out of attempts
C1_Witness ==
    /\ AllReturned
    /\ NumReturned = 4
    /\ NumSucceeded = 3
    /\ \E c \in Callers : calls[c].result = "failed_duplicate"

\* C2 as stated: no stored ticket carries an identifier that was assigned to
\* a ticket deleted earlier (create_ticket never reuses a deleted identifier),
\* here with every scan of the store succeeding.
C2_NoDeletedIdReused ==
    ~scanFault => \A i \in DOMAIN tickets : tickets[i].ticket_id \notin deleted

----------------------------------------------------------------------------
(* Properties of the session *)

IsCall(e) == e.json = "object" /\ e.type = FunctionCallDone

NoHandler(n) == Hashable(n) /\ n \notin FUNCTION_HANDLERS

Dispatching == xai_to_browser \in {"started", "in_handler", "output", "create", "executed"}

\* log positions of the sends of one kind made for the call numbered s
SendsOf(log, type, s) ==
    {i \in DOMAIN log : log[i].by = "xai_to_browser" /\ log[i].type = type /\ log[i].seq = s}

NumBy(log, by) == Cardinality({i \in DOMAIN log : log[i].by = by})

AllowListOfTheClaim ==
    {"input_audio_buffer.append", "input_audio_buffer.clear",
     "conversation.item.create", "response.create"}

C4_OnlyListedTypesSent ==
    /\ \A i \in DOMAIN upLog : upLog[i].by = "browser_to_xai" => upLog[i].type \in AllowListOfTheClaim
    /\ browser_to_xai = "send" => msg.type \in AllowListOfTheClaim

C4_ListedFrameForwarded ==
    /\ (browser_to_xai = "recv" /\ msg' # NoMsg /\ msg'.json = "object"
           /\ msg'.type \in AllowListOfTheClaim) => browser_to_xai' = "send"
    /\ (browser_to_xai = "send" /\ browser_to_xai' \in {"recv", "done"}) =>
           /\ Len(upLog') = Len(upLog) + 1
           /\ upLog'[Len(upLog')].by = "browser_to_xai"
           /\ upLog'[Len(upLog')].type = msg.type
           /\ upLog'[Len(upLog')].ok = (upConn = "open")

\* C4: every message browser_to_xai sends upstream has one of the four listed
\* types; a client frame of a listed type is sent upstream, and no other
\* client frame is.
C4_ProtocolFirewall == []C4_OnlyListedTypesSent /\ [][C4_ListedFrameForwarded]_vars

\* a listed frame reached upstream after another client frame was dropped
C4_Witness ==
    /\ nFrames >= 2
    /\ \E i \in DOMAIN upLog :
          upLog[i].by = "browser_to_xai" /\ upLog[i].ok /\ upLog[i].type = "response.create"
    /\ NumBy(upLog, "browser_to_xai") = 1
    /\ xai_to_browser = "recv" /\ event = NoEvent /\ clLog = << >>

\* C5 as stated: a client frame whose type is not in the allow-list does not
\* end browser_to_xai (msg is the frame in hand when the loop ended).
C5_UnlistedFrameKeepsLoop ==
    ~(browser_to_xai = "done" /\ msg.json = "object" /\ msg.type \notin AllowListOfTheClaim)

\* C6: a function call naming a tool without handler is announced with
\* function.started, answered upstream with the Unknown function error as
\* function_call_output followed by response.create, mirrored to the client
\* with that same result as function.executed, and does not end the loop.
C6_UnknownFunctionDispatched ==
    /\ \A i \in DOMAIN clLog :
          (clLog[i].type = "function.executed" /\ NoHandler(clLog[i].fn)) =>
             /\ clLog[i].result = [kind |-> "unknown_function", success |-> "absent",
                                   error |-> clLog[i].fn]
             /\ \E j \in SendsOf(clLog, "function.started", clLog[i].seq) :
                   j < i /\ clLog[j].fn = clLog[i].fn
             /\ \E k \in SendsOf(upLog, "function_call_output", clLog[i].seq) :
                   /\ upLog[k].result = clLog[i].result
                   /\ upLog[k].call_id = clLog[i].call_id
                   /\ upLog[k].ok =>
                         \E r \in SendsOf(upLog, "response.create", clLog[i].seq) : k < r
    /\ ~(xai_to_browser = "done" /\ IsCall(event) /\ NoHandler(event.name))

\* the whole sequence for an unknown tool went out, and the loop reads on
C6_Witness ==
    /\ xai_to_browser = "recv" /\ browser_to_xai = "recv" /\ mpc = "wait"
    /\ \E i \in DOMAIN clLog :
          /\ clLog[i].type = "function.executed" /\ clLog[i].ok
          /\ clLog[i].fn = "no_such_tool"
          /\ \E j \in SendsOf(clLog, "function.started", clLog[i].seq) : clLog[j].ok
          /\ \E k \in SendsOf(upLog, "function_call_output", clLog[i].seq) : upLog[k].ok
          /\ \E r \in SendsOf(upLog, "response.create", clLog[i].seq) : upLog[r].ok

\* C7: an exception raised by a handler becomes a result with success=false
\* that is sent upstream and mirrored to the client; it never ends the loop.
C7_HandlerExceptionContained ==
    /\ (Dispatching /\ event.raised) =>
          event.result.success = "false" /\ xai_to_browser \in {"output", "create", "executed"}
    /\ ~(xai_to_browser = "done" /\ event.raised)
    /\ \A i \in DOMAIN clLog :
          (clLog[i].type = "function.executed" /\ clLog[i].result.kind = "function_failed") =>
             /\ clLog[i].result.success = "false"
             /\ \E k \in SendsOf(upLog, "function_call_output", clLog[i].seq) :
                   upLog[k].result = clLog[i].result

\* a handler raised, its result went both ways, and a later upstream frame
\* was forwarded to the client
C7_Witness ==
    \E i, f \in DOMAIN clLog :
        /\ clLog[i].type = "function.executed" /\ clLog[i].ok
        /\ clLog[i].result.kind = "function_failed"
        /\ \E k \in SendsOf(upLog, "function_call_output", clLog[i].seq) : upLog[k].ok
        /\ i < f
        /\ clLog[f].type = "response.output_audio.delta" /\ clLog[f].ok

\* C8: function.executed of a call is sent only after function.started of the
\* same call has been attempted.
C8_StartedBeforeExecuted ==
    \A i \in DOMAIN clLog :
        clLog[i].type = "function.executed" =>
            \E j \in SendsOf(clLog, "function.started", clLog[i].seq) : j < i

C8_Witness ==
    \E i \in DOMAIN clLog :
        /\ clLog[i].type = "function.executed" /\ clLog[i].ok
        /\ \E j \in SendsOf(clLog, "function.started", clLog[i].seq) : j < i /\ clLog[j].ok

\* C9: the dispatcher's response.create for a call is sent only after the
\* function_call_output of that call was sent, and not when that send failed.
C9_OutputBeforeResponseCreate ==
    \A r \in DOMAIN upLog :
        (upLog[r].by = "xai_to_browser" /\ upLog[r].type = "response.create") =>
            \E k \in SendsOf(upLog, "function_call_output", upLog[r].seq) :
                k < r /\ upLog[k].ok

\* one call got its output and response.create; for a later call the output
\* send failed and function.executed still went out, without response.create
C9_Witness ==
    /\ \E r \in DOMAIN upLog : upLog[r].by = "xai_to_browser" /\ upLog[r].type = "response.create"
    /\ \E k \in DOMAIN upLog :
          /\ upLog[k].type = "function_call_output" /\ ~upLog[k].ok
          /\ SendsOf(upLog, "response.create", upLog[k].seq) = {}
          /\ SendsOf(clLog, "function.executed", upLog[k].seq) # {}

C10_NoLoopLeftRunning ==
    mpc \in {"close_upstream", "finally", "returned"} => ~Running(browser_to_xai) /\ ~Running(xai_to_browser)

Stopped(t) == t \in {"done", "cancelled"}

C10_StoppedLoopForwardsNothing ==
    /\ Stopped(browser_to_xai) => (browser_to_xai' = browser_to_xai /\ NumBy(upLog', "browser_to_xai") = NumBy(upLog, "browser_to_xai"))
    /\ Stopped(xai_to_browser) =>
           (xai_to_browser' = xai_to_browser /\ NumBy(upLog', "xai_to_browser") = NumBy(upLog, "xai_to_browser")
                       /\ NumBy(clLog', "xai_to_browser") = NumBy(clLog, "xai_to_browser"))

\* C10: once the session handler has seen a loop finish, the other loop is
\* cancelled and sends nothing more; the handler never goes on with a loop
\* still running.
C10_FirstCompletedCancelsOther ==
    []C10_NoLoopLeftRunning /\ [][C10_StoppedLoopForwardsNothing]_vars

\* browser_to_xai finished and xai_to_browser was cancelled inside a dispatch
C10_Witness ==
    /\ mpc = "close_upstream"
    /\ browser_to_xai = "done"
    /\ xai_to_browser = "cancelled"
    /\ IsCall(event)

LastSend(log) == log[Len(log)]

\* C11: however the session ended, the session handler has attempted to
\* close the client socket before it returns; the close is its last action
\* on that socket.
C11_ClientSocketClosed ==
    mpc = "returned" =>
        /\ Len(clLog) >= 1
        /\ LastSend(clLog).by = "main" /\ LastSend(clLog).type = "close"
        /\ clConn = "closed"

\* a malformed client frame ended browser_to_xai, xai_to_browser was
\* cancelled, and the handler closed the client socket and returned
C11_Witness ==
    /\ mpc = "returned"
    /\ browser_to_xai = "done" /\ msg.json = "invalid"
    /\ xai_to_browser = "cancelled"
    /\ LastSend(clLog).type = "close" /\ LastSend(clLog).ok

SetupFailed == upLog = << >>

MalformedFrame ==
    \/ browser_to_xai = "done" /\ msg.json = "invalid"
    \/ xai_to_browser = "done" /\ event.json = "invalid"

UpstreamDropped == xai_to_browser = "done" /\ event = NoEvent

\* C12 as stated: when the session ended on a failure of the setup or on a
\* failure in operation (upstream connection drop, malformed frame from
\* either peer) and the client was still reachable when its socket was
\* closed, an error frame was sent to the client before the close.
C12_FailureReported ==
    (/\ mpc = "returned"
     /\ SetupFailed \/ MalformedFrame \/ UpstreamDropped
     /\ LastSend(clLog).type = "close" /\ LastSend(clLog).ok) =>
        \E i \in DOMAIN clLog :
            clLog[i].by = "main" /\ clLog[i].type = "error" /\ clLog[i].ok

\* C13 as stated: the cancellation of xai_to_browser never interrupts a
\* handler between its two store operations (between the scan and the insert
\* of create_ticket).
C13_HandlerNotInterrupted ==
    ~(xai_to_browser = "cancelled" /\ event.handler = "op2")

----------------------------------------------------------------------------
(* Properties of single requests *)

\* the stored tickets a client's identifier names, whatever its letter-casing
Named(raw) ==
    {i \in DOMAIN tickets :
        tickets[i].ticket_id.pre = "TKT" /\ tickets[i].ticket_id.num = raw.num}

C14_UpdateEffect ==
    (last' # last /\ last'.op = "update_ticket_status" /\ Named(last'.ticket_id) # {}) =>
        /\ last'.reply = "ok"
        /\ Len(tickets') = Len(tickets)
        /\ \A i \in DOMAIN tickets :
              IF i \in Named(last'.ticket_id)
              THEN /\ tickets'[i].status = last'.status
                   /\ tickets'[i].updated_at = clock
                   /\ tickets'[i].resolution =
                         IF last'.note \in {"", "<absent>"}
                         THEN tickets[i].resolution
                         ELSE last'.note
                   /\ tickets'[i].ticket_id = tickets[i].ticket_id
                   /\ tickets'[i].priority = tickets[i].priority
              ELSE tickets'[i] = tickets[i]

C19_LookupEffect ==
    nGet' = nGet + 1 =>
        /\ tickets' = tickets
        /\ Named(last'.ticket_id) = {} =>
              /\ last'.op = "get_ticket" =>
                    /\ last'.reply = "not_found"
                    /\ last'.shown = [pre |-> "TKT", num |-> last'.ticket_id.num]
              /\ last'.op = "get_ticket_api" => last'.reply = "404"

\* C19: a lookup changes nothing in the store; for an identifier that is not
\* stored (never created, or deleted) get_ticket answers found=false with
\* the upper-cased identifier in its message and the REST lookup answers 404.
C19_MissingTicketNotFound == [][C19_LookupEffect]_vars

\* a ticket was created, then deleted, and the REST lookup of it got 404
C19_Witness ==
    /\ last.op = "get_ticket_api" /\ last.reply = "404"
    /\ calls[1].result = "success"
    /\ [pre |-> "TKT", num |-> last.ticket_id.num] \in deleted
    /\ last.ticket_id.num = FormatTicketId(Len(TICKET_SEED) + 1).num
    /\ Len(tickets) = Len(TICKET_SEED)

----------------------------------------------------------------------------
(* Properties of the incident counters *)

ActiveIncident(id) ==
    id \in DOMAIN priority_incidents /\ priority_incidents[id].active

Succeeded(id) ==
    Cardinality({c \in Joiners : joins[c].result = "success" /\ joins[c].incident_id = id})

C15_JoinEffect ==
    \A c \in Joiners :
        (joins[c].pc = "idle" /\ joins'[c].pc # "idle"
            /\ ~ActiveIncident(joins'[c].incident_id)) =>
                /\ joins'[c].pc = "done"
                /\ joins'[c].result = "failure"
                /\ priority_incidents' = priority_incidents

\* C15: add_me_to_priority_incident on an incident that is not flagged
\* active, or that is not stored, returns success=false and changes no
\* incident's affected counter.
C15_InactiveIncidentRejected == [][C15_JoinEffect]_vars

\* one call named the inactive incident, another one that is not stored
C15_Witness ==
    /\ joins[1].result = "failure" /\ joins[1].incident_id = IncidentId("INC", "0070")
    /\ joins[2].result = "failure" /\ joins[2].incident_id = IncidentId("INC", "9999")
    /\ \A id \in DOMAIN priority_incidents :
          priority_incidents[id].affected = affected0[id]

\* C16: each successful add_me_to_priority_incident adds exactly 1 to its
\* incident's counter and none is lost: the counter is its start value plus
\* the number of successful calls plus the net effect of the toggles.
C16_NoLostIncrement ==
    \A id \in DOMAIN priority_incidents :
        priority_incidents[id].affected = affected0[id] + Succeeded(id) + togNet[id]

\* two calls read the same count, both incremented, and a toggle went through
C16_Witness ==
    /\ joins[1].result = "success" /\ joins[2].result = "success"
    /\ joins[1].incident_id = joins[2].incident_id
    /\ joins[1].new_count = joins[2].new_count
    /\ nTog >= 1 /\ togNet[joins[1].incident_id] # 0

\* C17 as stated: the count a successful add_me_to_priority_incident returns
\* is the stored counter as its own increment left it.
C17_ReturnsNewCount ==
    \A c \in Joiners :
        joins[c].result = "success" => joins[c].new_count = joins[c].stored

\* C18 as stated: no incident's affected counter is negative.
C18_CounterNeverNegative ==
    \A id \in DOMAIN priority_incidents : priority_incidents[id].affected >= 0

\* C20 as stated: a tool handler called with malformed arguments or with the
\* store unavailable returns a result, it never raises.
C20_HandlerNeverRaises == ~event.raised

----------------------------------------------------------------------------
(* Properties of the session, continued *)

\* the raw upstream frames among the sends to the client
RawForwards == {i \in DOMAIN clLog :
                   clLog[i].by = "xai_to_browser"
                   /\ clLog[i].type \notin {"function.started", "function.executed"}}

C21_NoCallForwardedRaw ==
    /\ \A i \in RawForwards : clLog[i].type # FunctionCallDone
    /\ \A i, j \in RawForwards : clLog[i].seq = clLog[j].seq => i = j
    /\ xai_to_browser = "forward" => ~IsCall(event) /\ event.json = "object"
    /\ Dispatching => IsCall(event)

C21_ForwardStep ==
    /\ (xai_to_browser = "recv" /\ xai_to_browser' \notin {"recv", "cancelled"}) =>
          /\ (event'.json = "object" /\ event'.type # FunctionCallDone) <=>
                 xai_to_browser' = "forward"
          /\ (event'.json = "object" /\ event'.type = FunctionCallDone) <=>
                 xai_to_browser' = "started"
    /\ (xai_to_browser = "forward" /\ xai_to_browser' # "forward") =>
          \/ xai_to_browser' = "cancelled" /\ clLog' = clLog
          \/ /\ xai_to_browser' \in {"recv", "done"}
             /\ Len(clLog') = Len(clLog) + 1
             /\ LastSend(clLog').by = "xai_to_browser"
             /\ LastSend(clLog').type = event.type
             /\ LastSend(clLog').seq = event.seq
             /\ LastSend(clLog').ok = (clConn = "open")
             /\ xai_to_browser' = "recv" <=> clConn = "open"

\* C21: an upstream event that is not a function call goes to the client as
\* it came, once, before the loop reads on; a function-call event is never
\* forwarded raw, the client gets function.started and function.executed.
C21_RawForwarding == []C21_NoCallForwardedRaw /\ [][C21_ForwardStep]_vars

\* a function call was dispatched and the audio frame after it forwarded raw
C21_Witness ==
    /\ xai_to_browser = "recv"
    /\ \E j \in RawForwards :
          /\ clLog[j].ok
          /\ clLog[j].type = "response.output_audio.delta"
          /\ \E k \in DOMAIN clLog :
                k < j /\ clLog[k].type = "function.executed" /\ clLog[k].ok

SessionUpdates == {i \in DOMAIN upLog : upLog[i].type = "session.update"}

\* C22 as stated: a session that has ended has sent exactly one
\* session.update upstream.
C22_ExactlyOneSessionUpdate ==
    mpc = "returned" => Cardinality(SessionUpdates) = 1

C22_SessionUpdateFirst ==
    /\ Cardinality(SessionUpdates) <= 1
    /\ upLog # << >> =>
          /\ upLog[1].by = "main" /\ upLog[1].type = "session.update"
          /\ upLog[1].fn = "TOOLS" /\ upLog[1].args = cfg
    /\ (browser_to_xai # "none" \/ xai_to_browser # "none") =>
          Cardinality(SessionUpdates) = 1 /\ upLog[1].ok
    /\ (mpc = "returned" /\ upLog = << >>) => cfg = "none" \/ upConn = "none"

C22_ConfigReadAtStart ==
    /\ (mpc = "config" /\ mpc' = "session_update") =>
          cfg' = IF config_col = "none" THEN "default" ELSE config_col
    /\ mpc \notin {"connect", "config"} => cfg' = cfg

\* C22 amended: at most one session.update is sent upstream in a session,
\* none when the upstream connection or the configuration fetch failed and
\* exactly one in every session that started its loops; it carries the tool
\* registry and the configuration read at session start, and it comes before
\* every forwarded client frame and every function output.
C22_OneSessionUpdateFirst == []C22_SessionUpdateFirst /\ [][C22_ConfigReadAtStart]_vars

\* the session was configured from a saved document that has been reset
\* since; a client frame and a function output followed the session.update
C22_Witness ==
    /\ Len(upLog) >= 3
    /\ upLog[1].type = "session.update" /\ upLog[1].ok /\ upLog[1].args = "saved"
    /\ config_col = "none"
    /\ \E i \in DOMAIN upLog : upLog[i].by = "browser_to_xai" /\ upLog[i].ok
    /\ \E i \in DOMAIN upLog : upLog[i].type = "function_call_output" /\ upLog[i].ok

\* the stored tickets that carry an identifier
WithId(coll, id) == {j \in DOMAIN coll : coll[j].ticket_id = id}

\* a step in which the update_one of a REST PATCH is applied
PatchApplied ==
    \E w \in Writers : updates[w].pc = "update_ticket_api" /\ updates'[w].pc = "done"

C23_FixedFieldsKept(doc) ==
    \A j \in WithId(tickets', doc.ticket_id) :
        /\ tickets'[j].title = doc.title
        /\ tickets'[j].description = doc.description
        /\ tickets'[j].category = doc.category
        /\ tickets'[j].user = doc.user
        /\ tickets'[j].created_at = doc.created_at

C23_PriorityKept(doc) ==
    \A j \in WithId(tickets', doc.ticket_id) : tickets'[j].priority = doc.priority

C23_StepKeepsAllButStatus ==
    \A i \in DOMAIN tickets : C23_FixedFieldsKept(tickets[i]) /\ C23_PriorityKept(tickets[i])

\* C23 as stated: a step of the program either removes a stored ticket or
\* keeps its identifier, title, description, priority, category, creator and
\* creation timestamp.
C23_OnlyStatusResolutionUpdatedAt == [][C23_StepKeepsAllButStatus]_vars

C23_StepKeepsFixedFields ==
    \A i \in DOMAIN tickets :
        /\ C23_FixedFieldsKept(tickets[i])
        /\ C23_PriorityKept(tickets[i]) \/ PatchApplied

\* C23 amended: a step of the program either removes a stored ticket or keeps
\* its identifier, title, description, category, creator and creation
\* timestamp; its priority is changed only by the REST PATCH, never by
\* update_ticket_status.
C23_OnlyMutableFieldsChange == [][C23_StepKeepsFixedFields]_vars

\* a PATCH changed the priority of the last seed ticket, whose status an
\* update_ticket_status call changed as well
C23_Witness ==
    /\ \A w \in Writers : updates[w].pc = "done"
    /\ \E i \in DOMAIN tickets :
          /\ tickets[i].ticket_id = FormatTicketId(Len(TICKET_SEED))
          /\ tickets[i].priority = "critical"
          /\ tickets[i].status = "closed"
          /\ tickets[i].title = TICKET_SEED[Len(TICKET_SEED)].title

C25_StepKeepsOrder ==
    \A i \in DOMAIN tickets :
        \A j \in WithId(tickets', tickets[i].ticket_id) :
            tickets'[j].updated_at >= tickets[i].updated_at

\* C25: no update of an existing ticket lowers its updated-at: every status
\* change stamps the ticket with the time of the change.
C25_UpdatedAtNeverDecreases == [][C25_StepKeepsOrder]_vars

\* C24: the stored articles, in the order of their creation, have strictly
\* increasing numeric suffixes: no two share an article_id and every article
\* was created with a suffix greater than that of the articles stored then.
C24_ArticleIdsIncreasing ==
    \A i, j \in DOMAIN kb_col :
        i < j => DigitsToInt(kb_col[i].article_id.num) < DigitsToInt(kb_col[j].article_id.num)

\* the stored tickets a listing asked for: every ticket without a status
\* filter (an empty status parameter of the REST listing is none), else the
\* tickets with that status
C26_Asked ==
    {i \in DOMAIN tickets :
        \/ last.status \in {"<absent>", "all"}
        \/ last.op = "list_tickets_api" /\ last.status = ""
        \/ tickets[i].status = last.status}

\* the stored tickets a listing returned
C26_Returned ==
    {i \in DOMAIN tickets : \E k \in DOMAIN last.tickets :
        last.tickets[k].ticket_id = tickets[i].ticket_id}

\* C26: a listing returns only tickets with the status asked for, and tickets
\* of every status when asked for 'all' or for none; the REST listing returns
\* all of them; list_tickets returns at most 10, none of the tickets it
\* leaves out was created after one it returns, and its count is the number
\* of tickets returned.
C26_ListingFiltered ==
    last.op \in {"list_tickets", "list_tickets_api"} =>
        /\ C26_Returned \subseteq C26_Asked
        /\ Cardinality(C26_Returned) = Len(last.tickets)
        /\ \A k \in DOMAIN last.tickets : \E i \in C26_Returned :
              /\ last.tickets[k].ticket_id = tickets[i].ticket_id
              /\ last.tickets[k].status = tickets[i].status
        /\ last.op = "list_tickets_api" => C26_Returned = C26_Asked
        /\ last.op = "list_tickets" =>
              /\ Len(last.tickets) <= 10
              /\ Len(last.tickets) = 10 \/ C26_Returned = C26_Asked
              /\ \A i \in C26_Returned, j \in C26_Asked \ C26_Returned :
                    tickets[j].created_at <= tickets[i].created_at
              /\ last.count = Len(last.tickets)

\* list_tickets asked for every ticket of a store of more than 10 returned
\* 10 and left out a ticket created together with one it returned
C26_Witness ==
    /\ last.op = "list_tickets" /\ last.status = "all"
    /\ Len(tickets) > 10 /\ last.count = 10
    /\ \E i \in C26_Returned, j \in DOMAIN tickets \ C26_Returned :
          tickets[j].created_at = tickets[i].created_at

----------------------------------------------------------------------------
(* Properties of create_ticket *)

\* C27: every create_ticket call ends with a success or a failure result of
\* its own: the handler never leaves by an exception.
C27_CreateTicketReturnsResult == ~(event.name = "create_ticket" /\ event.raised)

C28_Suffix(i) == DigitsToInt(tickets[i].ticket_id.num)

C28_MaxStored ==
    IF tickets = << >> THEN 0
    ELSE CHOOSE m \in {C28_Suffix(i) : i \in DOMAIN tickets} :
            \A i \in DOMAIN tickets : C28_Suffix(i) <= m

C28_SuffixIsRank == \A i \in DOMAIN tickets : C28_Suffix(i) = i

C28_InsertIsNext ==
    Len(tickets') > Len(tickets) =>
        /\ Len(tickets') = Len(tickets) + 1
        /\ DigitsToInt(tickets'[Len(tickets')].ticket_id.num) = C28_MaxStored + 1

\* C28: without deletions, under any interleaving of create_ticket calls, the
\* ticket of every insertion carries the store's highest suffix plus one:
\* the i-th ticket inserted has suffix i, and the stored suffixes never have
\* a gap.
C28_NextSuffixNoGap == []C28_SuffixIsRank /\ [][C28_InsertIsNext]_vars

\* three calls that scanned the empty store have inserted TKT-001..TKT-003,
\* a fourth is on its second pass
C28_Witness ==
    /\ Len(tickets) = 3
    /\ Cardinality({c \in Callers : calls[c].result = "success"}) = 3
    /\ \E c \in Callers : calls[c].pc = "insert" /\ calls[c].last_num = 0 /\ calls[c].attempt = 1

\* the store served every scan and every insert
C29_StoreAvailable == ~scanFault /\ \A c \in Callers : calls[c].result # "failed_error"

C29_FewCallsSucceed ==
    /\ (C29_StoreAvailable /\ Cardinality({c \in Callers : calls[c].pc # "idle"}) <= 3) =>
          \A c \in Callers : calls[c].result \in {"none", "success"}
    /\ \A c \in Callers :
          (~scanFault /\ calls[c].result = "failed_duplicate") => others[c] >= 3

C29_FailsAfterThreeOthers ==
    \A c \in Callers :
        (~scanFault /\ calls[c].pc = "insert" /\ calls'[c].pc = "done" /\ others[c] < 3) =>
            calls'[c].result \in {"success", "failed_error"}

\* C29: with the store available, a create_ticket call with fewer than three
\* insertions of other calls since its scan does not fail from collisions;
\* when at most three calls run in total every one succeeds, and a call that
\* failed from collisions had three insertions of others since its scan.
C29_BoundedRetrySuffices == []C29_FewCallsSucceed /\ [][C29_FailsAfterThreeOthers]_vars

\* of four calls that scanned the empty store one succeeded on its third pass,
\* after two insertions of others, and one failed after three
C29_Witness ==
    /\ C29_StoreAvailable
    /\ \E c \in Callers : calls[c].result = "success" /\ others[c] = 2
    /\ \E c \in Callers : calls[c].result = "failed_duplicate" /\ others[c] = 3

----------------------------------------------------------------------------
(* Properties of the dispatcher *)

\* xai_to_browser takes a step of its own (it is not cancelled)
C30_LoopSteps(from) ==
    xai_to_browser = from /\ xai_to_browser' \notin {from, "cancelled"}

C30_LaterStepsFollow ==
    /\ (C30_LoopSteps("started") /\ ~LastSend(clLog').ok /\ Hashable(event.name)) =>
          /\ xai_to_browser' = IF event.name \in FUNCTION_HANDLERS THEN "in_handler" ELSE "output"
    /\ C30_LoopSteps("in_handler") => xai_to_browser' = "output"
    /\ C30_LoopSteps("output") =>
          /\ xai_to_browser' \in {"create", "executed"}
          /\ Len(upLog') = Len(upLog) + 1
          /\ LastSend(upLog').type = "function_call_output"
          /\ LastSend(upLog').result = event.result
    /\ C30_LoopSteps("create") => xai_to_browser' = "executed"
    /\ C30_LoopSteps("executed") =>
          /\ xai_to_browser' = "recv"
          /\ Len(clLog') = Len(clLog) + 1
          /\ LastSend(clLog').type = "function.executed"
          /\ LastSend(clLog').seq = event.seq

\* C30: a failed send of function.started is followed by the handler and by
\* the send of its result upstream, a failed send of the function_call_output
\* by the send of function.executed, and after it the loop waits for the next
\* upstream frame: no failed send of the dispatcher ends the loop.
C30_SendFailuresSwallowed == [][C30_LaterStepsFollow]_vars

\* both sockets were gone during a create_ticket call: function.started was
\* not delivered, the handler ran, its output was not delivered,
\* function.executed was tried, and the loop is back at its receive
C30_Witness ==
    /\ xai_to_browser = "recv"
    /\ \E i, k \in DOMAIN clLog, j \in DOMAIN upLog :
          /\ i < k
          /\ clLog[i].by = "xai_to_browser" /\ clLog[i].type = "function.started" /\ ~clLog[i].ok
          /\ upLog[j].by = "xai_to_browser" /\ upLog[j].type = "function_call_output"
          /\ ~upLog[j].ok /\ upLog[j].seq = clLog[i].seq /\ upLog[j].result.kind = "handler"
          /\ clLog[k].type = "function.executed" /\ clLog[k].seq = clLog[i].seq

----------------------------------------------------------------------------
(* Properties of the dispatch of one call and of several *)

\* a function-call event whose arguments string is absent or is no JSON
C31_Unparsed(e) == IsCall(e) /\ e.arguments \in {"invalid", "absent"}

\* xai_to_browser takes a step of its own from the position given
C31_OwnStep(from) ==
    xai_to_browser = from /\ xai_to_browser' \notin {from, "cancelled"}

C31_EmptyObjectInHand ==
    (C31_Unparsed(event) /\ Dispatching) => event.func_args = "empty"

C31_FullDispatch ==
    /\ (xai_to_browser = "recv" /\ C31_Unparsed(event')) =>
          /\ event'.func_args = "empty"
          /\ xai_to_browser' = "started"
    /\ C31_Unparsed(event) =>
          /\ C31_OwnStep("started") =>
                /\ Len(clLog') = Len(clLog) + 1
                /\ LastSend(clLog').type = "function.started"
                /\ xai_to_browser' = IF event.name \in FUNCTION_HANDLERS
                                     THEN "in_handler" ELSE "output"
          /\ C31_OwnStep("in_handler") =>
                /\ xai_to_browser' = "output"
                /\ event'.result # NoResult
                /\ event'.func_args = "empty"
          /\ C31_OwnStep("output") =>
                /\ Len(upLog') = Len(upLog) + 1
                /\ LastSend(upLog').type = "function_call_output"
                /\ LastSend(upLog').call_id = event.call_id
                /\ xai_to_browser' = IF LastSend(upLog').ok THEN "create" ELSE "executed"
          /\ C31_OwnStep("create") =>
                /\ Len(upLog') = Len(upLog) + 1
                /\ LastSend(upLog').type = "response.create"
                /\ xai_to_browser' = "executed"
          /\ C31_OwnStep("executed") =>
                /\ Len(clLog') = Len(clLog) + 1
                /\ LastSend(clLog').type = "function.executed"
                /\ LastSend(clLog').args = "empty"
                /\ LastSend(clLog').result = event.result
                /\ xai_to_browser' = "recv"

\* C31: a function call whose arguments are absent or do not parse is
\* dispatched with the empty object: function.started, the handler (or the
\* unknown-function result), the function_call_output upstream, response.create
\* after a delivered output, function.executed with args {}; then the loop
\* reads the next frame.
C31_EmptyArgumentsDispatched == []C31_EmptyObjectInHand /\ [][C31_FullDispatch]_vars

\* the sends xai_to_browser made for the call with the call_id given
C31_Delivered(log, type, c) ==
    \E i \in DOMAIN log : /\ log[i].by = "xai_to_browser" /\ log[i].type = type
                          /\ log[i].call_id = c /\ log[i].ok /\ log[i].args = "empty"

\* a call with invalid arguments and one without arguments went through all
\* five steps in one session, which goes on
C31_Witness ==
    /\ mpc = "wait" /\ xai_to_browser = "recv" /\ browser_to_xai = "recv"
    /\ \A c \in {"call_a", "call_b"} :
          /\ C31_Delivered(clLog, "function.started", c)
          /\ C31_Delivered(upLog, "function_call_output", c)
          /\ C31_Delivered(upLog, "response.create", c)
          /\ C31_Delivered(clLog, "function.executed", c)

C32_Outputs == {i \in DOMAIN upLog : upLog[i].type = "function_call_output"}

C32_Executed == {j \in DOMAIN clLog : clLog[j].type = "function.executed"}

C32_SameCall ==
    /\ \A i \in C32_Outputs, j \in C32_Executed :
          upLog[i].seq = clLog[j].seq =>
              /\ clLog[j].result = upLog[i].result
              /\ clLog[j].fn = upLog[i].fn
              /\ clLog[j].call_id = upLog[i].call_id
    /\ \A i, j \in C32_Outputs : upLog[i].seq = upLog[j].seq => i = j
    /\ \A i, j \in C32_Executed : clLog[i].seq = clLog[j].seq => i = j

C32_CallInHandKept ==
    /\ (Dispatching /\ xai_to_browser' # "recv") =>
          /\ event'.call_id = event.call_id
          /\ event'.name = event.name
          /\ event'.seq = event.seq
    /\ (xai_to_browser \in {"output", "create", "executed"} /\ xai_to_browser' # "recv") =>
          event'.result = event.result
    /\ (xai_to_browser = "recv" /\ event' # event) =>
          /\ \A i \in DOMAIN upLog : upLog[i].seq < event'.seq
          /\ \A j \in DOMAIN clLog : clLog[j].seq < event'.seq
    /\ (xai_to_browser = "output" /\ Len(upLog') > Len(upLog)
            /\ LastSend(upLog').by = "xai_to_browser") =>
          /\ LastSend(upLog').call_id = event.call_id
          /\ LastSend(upLog').result = event.result
          /\ LastSend(upLog').seq = event.seq
    /\ (xai_to_browser = "executed" /\ Len(clLog') > Len(clLog)
            /\ LastSend(clLog').by = "xai_to_browser") =>
          /\ LastSend(clLog').fn = event.name
          /\ LastSend(clLog').result = event.result
          /\ LastSend(clLog').seq = event.seq

\* C32: the function_call_output of a dispatched call carries the call_id of
\* the event that asked for it, the function.executed notification carries
\* the same result and the event's function name, and with several calls in
\* a session each output and each notification belongs to one call only.
C32_ResultsBelongToTheirCall == []C32_SameCall /\ [][C32_CallInHandKept]_vars

\* create_ticket (call_a) and an unknown function (call_b) were dispatched in
\* one session: two outputs with their own call_id and result, each result
\* repeated to the browser
C32_Witness ==
    \E i, j \in C32_Outputs, k, l \in C32_Executed :
        /\ i < j /\ k < l
        /\ upLog[i].call_id = "call_a" /\ upLog[j].call_id = "call_b"
        /\ upLog[i].result # upLog[j].result
        /\ upLog[i].fn # upLog[j].fn
        /\ clLog[k].seq = upLog[i].seq /\ clLog[l].seq = upLog[j].seq
        /\ clLog[k].result = upLog[i].result /\ clLog[l].result = upLog[j].result

\* the calls announced to the browser
C33_Started == {clLog[i].seq : i \in {k \in DOMAIN clLog : clLog[k].type = "function.started"}}

C33_Attempted(s) == SendsOf(clLog, "function.executed", s) # {}

C33_OneDispatchAtATime ==
    \A s \in C33_Started :
        ~C33_Attempted(s) =>
            /\ event.seq = s
            /\ xai_to_browser \notin {"recv", "forward", "started"}

C33_UpstreamOrderKept ==
    /\ \A i, j \in DOMAIN clLog :
          (i < j /\ clLog[i].by = "xai_to_browser" /\ clLog[j].by = "xai_to_browser") =>
              /\ clLog[i].seq <= clLog[j].seq
              /\ (clLog[i].type = "function.started" /\ clLog[i].seq < clLog[j].seq) =>
                    \E k \in SendsOf(clLog, "function.executed", clLog[i].seq) : k < j
    /\ \A s \in C33_Started, j \in DOMAIN upLog :
          (upLog[j].by = "xai_to_browser" /\ upLog[j].seq > s) => C33_Attempted(s)

\* C33: what xai_to_browser sends to the client follows the order of the
\* upstream frames, and a frame that came after a function call is forwarded
\* or dispatched only when function.executed has been attempted for that
\* call: at most one call is being dispatched.
C33_DispatchesSequential == C33_OneDispatchAtATime /\ C33_UpstreamOrderKept

\* one call was dispatched to its end, the next is with its handler or at its
\* sends, and the client frame read after it has already gone upstream
C33_Witness ==
    /\ \E s \in C33_Started : C33_Attempted(s) /\ s < event.seq
    /\ event.seq \in C33_Started /\ ~C33_Attempted(event.seq)
    /\ xai_to_browser \in {"in_handler", "output", "create", "executed"}
    /\ nFrames > event.seq
    /\ browser_to_xai = "recv"
    /\ upLog # << >> /\ LastSend(upLog).by = "browser_to_xai" /\ LastSend(upLog).ok

----------------------------------------------------------------------------
(* Termination of the session *)

C34_PeerGone == clConn = "closed" \/ upConn = "closed"

C34_Terminated ==
    /\ mpc = "returned"
    /\ clConn = "closed"
    /\ upConn # "open"
    /\ ~Running(browser_to_xai)
    /\ ~Running(xai_to_browser)

\* C34: once the client socket or the upstream connection is closed, the
\* session handler returns: neither loop is running any more, the upstream
\* connection is closed and the client socket is closed, whatever the
\* dispatcher was doing.
C34_DisconnectEndsSession == C34_PeerGone ~> C34_Terminated

\* the client left while a handler was awaited: the dispatcher was cancelled
\* in the handler, and the close of the client socket found it gone
C34_Witness ==
    /\ C34_Terminated
    /\ xai_to_browser = "cancelled" /\ event.handler = "op1"
    /\ LastSend(clLog).type = "close" /\ ~LastSend(clLog).ok
    /\ upConn = "closed"

----------------------------------------------------------------------------
(* Properties of startup_event *)

\* startup_event stops: it returns, or a count raises
C35_RunStops ==
    startup.pc \notin {"serving", "crashed"} /\ startup'.pc \in {"serving", "crashed"}

\* a step of a startup that found tickets, articles and incidents stored
C35_StepOnPopulatedStore ==
    startup.pc \notin {"serving", "crashed"} /\ startup.populated

C35_TicketIds(coll) == {coll[i].ticket_id : i \in DOMAIN coll}

C35_ArticleIds(coll) == {coll[i].article_id : i \in DOMAIN coll}

C35_SeedIsStored ==
    /\ Len(tickets') = 3
    /\ C35_TicketIds(tickets') = {FormatTicketId(1), FormatTicketId(2), FormatTicketId(3)}
    /\ Len(kb_col') = 8
    /\ C35_ArticleIds(kb_col') = {FormatArticleId(n) : n \in 1..8}

C35_StoredDocumentsKept ==
    /\ tickets' = tickets
    /\ kb_col' = kb_col
    /\ \A id \in DOMAIN priority_incidents :
          /\ id \in DOMAIN priority_incidents'
          /\ priority_incidents'[id] = priority_incidents[id]

C35_AsStated ==
    /\ (C35_RunStops /\ startup.empty) => C35_SeedIsStored
    /\ C35_StepOnPopulatedStore =>
          /\ C35_StoredDocumentsKept
          /\ priority_incidents' = priority_incidents

C35_Amended ==
    /\ (C35_RunStops /\ startup.empty /\ startup'.pc = "serving" /\ startup'.faults = 0) =>
          /\ C35_SeedIsStored
          /\ tickets' = TICKET_SEED
          /\ kb_col' = KB_SEED
          /\ priority_incidents' = PRIORITY_INCIDENT_SEED
    /\ C35_StepOnPopulatedStore => C35_StoredDocumentsKept

====
